---- MODULE Spec2Model ----
(***************************************************************************)
(* Model of the risk-and-execution core of the arbitrage bot:              *)
(*   src/src/risk/positions.rs  PositionTracker (the exposure ledger)      *)
(*   src/src/main.rs            the book-processing flow and its tasks     *)
(*                                                                         *)
(* The ledger's two DashMaps are modelled as functions whose DOMAIN is the *)
(* set of keys present, guarded by per-shard read/write locks.  Every      *)
(* method is split at the points where it takes or drops a shard lock, so  *)
(* that calls of independent tasks interleave exactly where the code lets  *)
(* them.  rust_decimal values are modelled as exact fractions in lowest    *)
(* terms (Decimal's rounding of a quotient at the 28th fractional digit is *)
(* below the resolution of the model).                                     *)
(***************************************************************************)
EXTENDS Integers, Sequences, FiniteSets, Bags, TLC

\* ------------------------------------------------------------------------
\* Bounds of the model
\* ------------------------------------------------------------------------
NumTasks == 2
\* calls issued in one behaviour of Spec
MaxCalls == 4
\* calls issued in one behaviour of SpecSeq
MaxSeqCalls == 4
\* book updates consumed in one behaviour of SpecTrade
MaxBookUpdates == 2
\* shards of each DashMap
NumShards == 2
\* ask levels in a book
MaxAsks == 2
\* markets of the inventory the merge task fetches
MaxMarkets == 2
\* ledger calls made by the trading side while the merge task runs (SpecMergeTrade)
MaxMergeTimeCalls == 2
\* ET hours, counted from an ET midnight, the window arithmetic is applied in
\* (SpecWindow): more than a day, so that the 23:00 window is crossed
MaxHours == 26
\* hour windows the scheduler may wait through (SpecSched)
MaxWindows == 3
\* seconds before, and tracked after, the hour boundary in the monitoring loop
\* (SpecMonitor)
MaxLead == 6
MaxPast == 2

Tokens == {1, 2}
Tasks == 1..NumTasks
\* process 0 is the book-processing flow of main
MainFlow == 0
Procs == {MainFlow} \cup Tasks
NoProc == MainFlow - 1
Shards == 1..NumShards

\* ------------------------------------------------------------------------
\* Decimal arithmetic (rust_decimal): n/d in lowest terms, d > 0
\* ------------------------------------------------------------------------
IAbs(i) == IF i < 0 THEN -i ELSE i

RECURSIVE GCD(_, _)
GCD(a, b) == IF b = 0 THEN a ELSE GCD(b, a % b)

Dec(n, d) ==
    LET g == GCD(IAbs(n), d)
    IN  [n |-> n \div g, d |-> d \div g]

Zero == Dec(0, 1)
One == Dec(1, 1)

DAdd(a, b) ==
    LET g == GCD(a.d, b.d)
    IN  Dec(a.n * (b.d \div g) + b.n * (a.d \div g), (a.d \div g) * b.d)

DNeg(a) == [n |-> -a.n, d |-> a.d]

DSub(a, b) == DAdd(a, DNeg(b))

DMul(a, b) ==
    LET g1 == GCD(IAbs(a.n), b.d)
        g2 == GCD(IAbs(b.n), a.d)
    IN  Dec((a.n \div g1) * (b.n \div g2), (a.d \div g2) * (b.d \div g1))

\* b # Zero
DDiv(a, b) ==
    DMul(a, IF b.n > 0 THEN [n |-> b.d, d |-> b.n] ELSE [n |-> -b.d, d |-> -b.n])

DLt(a, b) ==
    LET g == GCD(a.d, b.d)
    IN  a.n * (b.d \div g) < b.n * (a.d \div g)

DLe(a, b) == ~DLt(b, a)

DAbs(a) == [n |-> IAbs(a.n), d |-> a.d]

DMin(a, b) == IF DLt(b, a) THEN b ELSE a

DMax(a, b) == IF DLt(a, b) THEN b ELSE a

\* Decimal::round_dp(2): to the nearest hundredth, a midpoint to the even one
\* (rust_decimal's default strategy)
RoundDp2(a) ==
    LET q == (a.n * 100) \div a.d
        r == (a.n * 100) % a.d
    IN  IF 2 * r < a.d THEN Dec(q, 100)
        ELSE IF 2 * r > a.d THEN Dec(q + 1, 100)
        ELSE IF q % 2 = 0 THEN Dec(q, 100)
        ELSE Dec(q + 1, 100)

\* (a * dec!(100.0)).floor() / dec!(100.0)
FloorDp2(a) == Dec((a.n * 100) \div a.d, 100)

\* Decimal::is_zero
IsZero(a) == a.n = 0

\* dec!(0.0001): the position epsilon;  dec!(0.01): one cent
PositionEpsilon == Dec(1, 10000)
OneCent == Dec(1, 100)

\* ------------------------------------------------------------------------
\* DashMap: a map is a function over the keys present
\* ------------------------------------------------------------------------
EmptyMap == [k \in {} |-> Zero]

MapGet(m, k) == IF k \in DOMAIN m THEN m[k] ELSE Zero

MapPut(m, k, v) == [x \in (DOMAIN m) \cup {k} |-> IF x = k THEN v ELSE m[x]]

MapRemove(m, k) == [x \in (DOMAIN m) \ {k} |-> m[x]]

RECURSIVE SumOver(_, _)
SumOver(m, keys) ==
    IF keys = {} THEN Zero
    ELSE LET k == CHOOSE x \in keys : TRUE
         IN  DAdd(m[k], SumOver(m, keys \ {k}))

\* ------------------------------------------------------------------------
\* Inputs
\* ------------------------------------------------------------------------
\* the ceiling handed to PositionTracker::new
max_exposure == Dec(10, 1)

\* deltas and prices of the calls issued by concurrent tasks (Spec)
Deltas == {Dec(10, 1), Dec(-10, 1), Dec(-4, 1)}
Prices == {Dec(2, 5)}

\* deltas and prices of the calls of the single caller (SpecSeq): whole and
\* partial sells, a zero delta, an amount below the epsilon, a sub-cent price
SeqDeltas == {Dec(10, 1), Dec(-4, 1), Dec(-10, 1), Zero, Dec(1, 20000)}
SeqPrices == {Dec(2, 5), Dec(1, 2), Dec(1, 1000)}

OpUpdatePosition == "update_position"
OpUpdateExposureCost == "update_exposure_cost"
OpCalculateExposure == "calculate_exposure"

PositionCall(t, d) == [op |-> OpUpdatePosition, token |-> t, price |-> Zero, delta |-> d]
CostCall(t, pr, d) == [op |-> OpUpdateExposureCost, token |-> t, price |-> pr, delta |-> d]
ExposureCall == [op |-> OpCalculateExposure, token |-> 1, price |-> Zero, delta |-> Zero]
NoCall == [op |-> "none", token |-> 1, price |-> Zero, delta |-> Zero]

CallsOver(ts, ds, prs) ==
    {PositionCall(t, d) : t \in ts, d \in ds}
        \cup {CostCall(t, pr, d) : t \in ts, pr \in prs, d \in ds}
        \cup {ExposureCall}

\* the single caller works on token 1; token 2 only receives a plain buy
SeqCalls ==
    CallsOver({1}, SeqDeltas, SeqPrices)
        \cup {PositionCall(2, Dec(10, 1)), CostCall(2, Dec(2, 5), Dec(10, 1))}

\* Option<T>: None, or Some(x)
None == <<>>
Some(x) == <<x>>

\* ------------------------------------------------------------------------
\* ArbitrageDetector (monitor/arbitrage.rs)
\* ------------------------------------------------------------------------
\* an ask level of a book; a book is its asks, the best ask last
Level(price, size) == [price |-> price, size |-> size]

\* ArbitrageDetector::new (lines 26-33): the threshold (here the value used
\* when the configured one does not convert) and the minimum order value
min_profit_threshold == Dec(1, 1000)
min_order_value_usd == Dec(1, 1)

\* lines 137-147: YES is token 1, NO is token 2
Opportunity(yes_ask, no_ask, final_size, net_profit_pct, total_price) ==
    [yes_token_id |-> 1, no_token_id |-> 2, yes_ask_price |-> yes_ask,
     no_ask_price |-> no_ask, total_cost |-> DMul(total_price, final_size),
     profit_percentage |-> net_profit_pct, yes_size |-> final_size,
     no_size |-> final_size]

NoOpportunity == Opportunity(Zero, Zero, Zero, Zero, Zero)

\* faulty variant: the total of the two prices is not compared with 1.0
FindBestOpportunityAnyTotal(yes_book, no_book) ==
    IF yes_book = <<>> \/ no_book = <<>> THEN None
    ELSE
    LET yes_best == yes_book[Len(yes_book)]
        no_best == no_book[Len(no_book)]
        yes_price == RoundDp2(yes_best.price)
        no_price == RoundDp2(no_best.price)
        total_price == DAdd(yes_price, no_price)
        raw_size == DMin(yes_best.size, no_best.size)
        final_size == IF IsZero(raw_size) THEN Dec(1, 100) ELSE FloorDp2(raw_size)
        yes_order_value == DMul(yes_price, final_size)
        no_order_value == DMul(no_price, final_size)
        profit_pct == DMul(DSub(One, total_price), Dec(100, 1))
    IN  IF DLt(yes_order_value, min_order_value_usd)
               \/ DLt(no_order_value, min_order_value_usd) THEN None
        ELSE Some(<<yes_price, no_price, final_size, profit_pct, total_price>>)

\* faulty variant: the order values are not compared with the minimum
FindBestOpportunityAnyValue(yes_book, no_book) ==
    IF yes_book = <<>> \/ no_book = <<>> THEN None
    ELSE
    LET yes_best == yes_book[Len(yes_book)]
        no_best == no_book[Len(no_book)]
        yes_price == RoundDp2(yes_best.price)
        no_price == RoundDp2(no_best.price)
        total_price == DAdd(yes_price, no_price)
        raw_size == DMin(yes_best.size, no_best.size)
        final_size == IF IsZero(raw_size) THEN Dec(1, 100) ELSE FloorDp2(raw_size)
        profit_pct == DMul(DSub(One, total_price), Dec(100, 1))
    IN  IF DLt(One, total_price) THEN None
        ELSE Some(<<yes_price, no_price, final_size, profit_pct, total_price>>)

\* faulty variant: the first ask of each book is taken for the best one
FindBestOpportunityFirstAsk(yes_book, no_book) ==
    IF yes_book = <<>> \/ no_book = <<>> THEN None
    ELSE
    LET yes_best == yes_book[1]
        no_best == no_book[1]
        yes_price == RoundDp2(yes_best.price)
        no_price == RoundDp2(no_best.price)
        total_price == DAdd(yes_price, no_price)
        raw_size == DMin(yes_best.size, no_best.size)
        final_size == IF IsZero(raw_size) THEN Dec(1, 100) ELSE FloorDp2(raw_size)
        yes_order_value == DMul(yes_price, final_size)
        no_order_value == DMul(no_price, final_size)
        profit_pct == DMul(DSub(One, total_price), Dec(100, 1))
    IN  IF DLt(One, total_price) THEN None
        ELSE IF DLt(yes_order_value, min_order_value_usd)
                    \/ DLt(no_order_value, min_order_value_usd) THEN None
        ELSE Some(<<yes_price, no_price, final_size, profit_pct, total_price>>)

\* find_best_opportunity (lines 37-70)
FindBestOpportunity(yes_book, no_book) ==
    IF yes_book = <<>> \/ no_book = <<>> THEN None
    ELSE
    LET yes_best == yes_book[Len(yes_book)]
        no_best == no_book[Len(no_book)]
        yes_price == RoundDp2(yes_best.price)
        no_price == RoundDp2(no_best.price)
        total_price == DAdd(yes_price, no_price)
        raw_size == DMin(yes_best.size, no_best.size)
        final_size == IF IsZero(raw_size) THEN Dec(1, 100) ELSE FloorDp2(raw_size)
        yes_order_value == DMul(yes_price, final_size)
        no_order_value == DMul(no_price, final_size)
        profit_pct == DMul(DSub(One, total_price), Dec(100, 1))
    IN  IF DLt(One, total_price) THEN None
        ELSE IF DLt(yes_order_value, min_order_value_usd)
                    \/ DLt(no_order_value, min_order_value_usd) THEN None
        ELSE Some(<<yes_price, no_price, final_size, profit_pct, total_price>>)

\* check_arbitrage (lines 115-148)
CheckArbitrage(yes_book, no_book) ==
    LET best == FindBestOpportunity(yes_book, no_book)
    IN  IF best = None THEN None
        ELSE Some(Opportunity(best[1][1], best[1][2], best[1][3], best[1][4],
                              best[1][5]))

\* the books the evaluator is applied to (SpecEval): prices that round down,
\* up and from a midpoint, the sizes of a level, and up to MaxAsks levels
AskPrices == {Dec(46, 100), Dec(51, 100), Dec(55, 100), Dec(52, 100),
              Dec(504, 1000), Dec(495, 1000)}
AskSizes == {Zero, Dec(120, 1), Dec(90, 1), Dec(5, 1000), Dec(2019, 1000)}
Levels == {Level(pr, sz) : pr \in AskPrices, sz \in AskSizes}
DeepLevels == {Level(Dec(60, 100), Dec(50, 1)), Level(Dec(30, 100), Dec(500, 1))}
Books ==
    {<<>>} \cup
    UNION {{Append(deep, best) : deep \in [1..k -> DeepLevels], best \in Levels} :
               k \in 0..(MaxAsks - 1)}

\* the pairs of books that reach the book-processing flow (SpecTrade)
BookPair(yes_price, no_price, size) ==
    [yes_book |-> <<Level(yes_price, size)>>, no_book |-> <<Level(no_price, size)>>]
TradeBookPairs == {BookPair(Dec(495, 1000), Dec(495, 1000), Dec(4, 1)),
                   BookPair(Dec(25, 100), Dec(25, 100), Dec(20, 1)),
                   BookPair(Dec(55, 100), Dec(52, 100), Dec(10, 1))}

\* a book update as the stream loop sees it: the pair of books, whether
\* market_map knows the market, and time_until_end.num_minutes()
Update(pair, market_known, minutes_until_end) ==
    [pair |-> pair, market_known |-> market_known,
     minutes_until_end |-> minutes_until_end]

NoUpdate == Update(BookPair(Zero, Zero, Zero), FALSE, 0)

\* the book updates that reach the book-processing flow (SpecTrade): the
\* three pairs with the market six minutes from its end, the first pair
\* with the market unknown and with the market five minutes from its end,
\* and a pair whose legs are worth half a dollar each
TradeUpdates ==
    {Update(pair, TRUE, 6) : pair \in TradeBookPairs}
        \cup {Update(BookPair(Dec(495, 1000), Dec(495, 1000), Dec(4, 1)), FALSE, 0),
              Update(BookPair(Dec(495, 1000), Dec(495, 1000), Dec(4, 1)), TRUE, 5),
              Update(BookPair(Dec(25, 100), Dec(25, 100), Dec(2, 1)), TRUE, 6)}

\* the two settings of the configuration the dispatch guards read: both
\* guards on (YES at least 0.50, stop five minutes before the end), both off
Config(min_yes_price_threshold, stop_arbitrage_before_end_minutes) ==
    [min_yes_price_threshold |-> min_yes_price_threshold,
     stop_arbitrage_before_end_minutes |-> stop_arbitrage_before_end_minutes]

GuardsOn == Config(Dec(50, 100), 5)

GuardsOff == Config(Zero, 0)

Configs == {GuardsOn, GuardsOff}

\* OrderPairResult: the quantities the two legs filled
OrderPairResult(yes_filled, no_filled) ==
    [yes_filled |-> yes_filled, no_filled |-> no_filled]

NoResult == OrderPairResult(Zero, Zero)

\* RecoveryAction (main.rs 485-497) and the Err of handle_order_pair
RecoveryNone == [kind |-> "None", token |-> 0, quantity |-> Zero]
MonitorForExit(token, quantity) ==
    [kind |-> "MonitorForExit", token |-> token, quantity |-> quantity]
SellExcess(token, quantity) ==
    [kind |-> "SellExcess", token |-> token, quantity |-> quantity]
ManualIntervention == [kind |-> "ManualIntervention", token |-> 0, quantity |-> Zero]
HandleFailed == [kind |-> "Err", token |-> 0, quantity |-> Zero]
NoAction == [kind |-> "unset", token |-> 0, quantity |-> Zero]

\* faulty variant: a pair of which neither leg filled counts as balanced
ClassifyEqualAsNone(yes_filled, no_filled, yes_token, no_token) ==
    IF yes_filled = no_filled THEN RecoveryNone
    ELSE IF DLt(Zero, yes_filled) /\ DLt(Zero, no_filled)
    THEN IF DLt(no_filled, yes_filled)
         THEN SellExcess(yes_token, DSub(yes_filled, no_filled))
         ELSE SellExcess(no_token, DSub(no_filled, yes_filled))
    ELSE IF DLt(Zero, yes_filled) /\ no_filled = Zero
    THEN MonitorForExit(yes_token, yes_filled)
    ELSE IF DLt(Zero, no_filled) /\ yes_filled = Zero
    THEN MonitorForExit(no_token, no_filled)
    ELSE ManualIntervention

\* the classification of a registered pair by the quantities its legs filled
Classify(yes_filled, no_filled, yes_token, no_token) ==
    IF DLt(Zero, yes_filled) /\ DLt(Zero, no_filled)
    THEN IF yes_filled = no_filled THEN RecoveryNone
         ELSE IF DLt(no_filled, yes_filled)
         THEN SellExcess(yes_token, DSub(yes_filled, no_filled))
         ELSE SellExcess(no_token, DSub(no_filled, yes_filled))
    ELSE IF DLt(Zero, yes_filled) /\ no_filled = Zero
    THEN MonitorForExit(yes_token, yes_filled)
    ELSE IF DLt(Zero, no_filled) /\ yes_filled = Zero
    THEN MonitorForExit(no_token, no_filled)
    ELSE ManualIntervention

\* faulty variant: a manual intervention is logged like the automated recipes
HandlerLogAllInfo(outcome) ==
    IF outcome.kind = "None" THEN "none"
    ELSE IF outcome.kind = "Err" THEN "error"
    ELSE "info"

\* lines 483-503: the level the handler logs the outcome at; nothing for None
HandlerLog(outcome) ==
    IF outcome.kind = "None" THEN "none"
    ELSE IF outcome.kind \in {"MonitorForExit", "SellExcess"} THEN "info"
    ELSE IF outcome.kind = "ManualIntervention" THEN "warn"
    ELSE "error"

\* ------------------------------------------------------------------------
\* Hour windows (market/discoverer.rs 33-86, market/scheduler.rs 23-36)
\* Instants are whole UTC seconds since the epoch.
\* ------------------------------------------------------------------------
\* discoverer.rs 36 and 55: FixedOffset::east_opt(-5 * 3600), ET taken as UTC-5
EtOffsetSecs == 5 * 3600

\* now.with_timezone(&et_offset): the ET wall clock of an instant, as the day
\* count and the hour, minute and second chrono's accessors return
EtSeconds(t) == t - EtOffsetSecs
EtDay(t) == EtSeconds(t) \div 86400
EtHour(t) == (EtSeconds(t) % 86400) \div 3600
EtMinute(t) == (EtSeconds(t) % 3600) \div 60
EtSecond(t) == EtSeconds(t) % 60

\* target_time.with_timezone(&Utc).timestamp() of an ET wall-clock time
EtTimestamp(day, hour, minute, second) ==
    day * 86400 + hour * 3600 + minute * 60 + second + EtOffsetSecs

\* discoverer.rs 33-48: the ET time with minute, second and nanosecond set to 0
calculate_current_window_timestamp(now) ==
    EtTimestamp(EtDay(now), EtHour(now), 0, 0)

\* faulty variant: the day is not advanced when the target hour passes 23
\* (lines 80-82 missing)
calculate_next_window_timestamp_same_day(now) ==
    LET target_hour == IF EtMinute(now) = 0 /\ EtSecond(now) = 0
                       THEN EtHour(now)
                       ELSE EtHour(now) + 1
        final_hour == IF target_hour >= 24 THEN target_hour - 24 ELSE target_hour
    IN  EtTimestamp(EtDay(now), final_hour, 0, 0)

\* discoverer.rs 52-86: this hour when now is on the hour, else the next one,
\* carried into the next day past 23
calculate_next_window_timestamp(now) ==
    LET target_hour == IF EtMinute(now) = 0 /\ EtSecond(now) = 0
                       THEN EtHour(now)
                       ELSE EtHour(now) + 1
        final_hour == IF target_hour >= 24 THEN target_hour - 24 ELSE target_hour
        day_adjustment == IF target_hour >= 24 THEN 1 ELSE 0
    IN  EtTimestamp(EtDay(now) + day_adjustment, final_hour, 0, 0)

\* scheduler.rs 23-36: signed_duration_since(now).to_std().unwrap_or(ZERO), then
\* saturating_sub(refresh_advance_secs) and max(ZERO)
calculate_wait_time(now, advance) ==
    LET signed == calculate_next_window_timestamp(now) - now
        std == IF signed < 0 THEN 0 ELSE signed
        wait_duration == IF std > advance THEN std - advance ELSE 0
    IN  IF wait_duration > 0 THEN wait_duration ELSE 0

\* ------------------------------------------------------------------------
\* State
\* ------------------------------------------------------------------------
VARIABLES
    positions,       \* PositionTracker.positions
    exposure_costs,  \* PositionTracker.exposure_costs
    shard_of,        \* the shard DashMap hashes each token to
    locks,           \* per store and shard: the writer and the readers
    pc,              \* per process: where it is inside its current call
    call,            \* per process: the call it is executing
    loc,             \* per process: the locals of the call
    ncalls,          \* calls issued so far
    issued,          \* bag of the calls issued so far (Spec)
    hist,            \* the last two calls with the ledger each started from (SpecSeq)
    delta_sum,       \* per token: sum of all update_position deltas applied
    discarded,       \* per token: sum of the remainders that snaps discarded
    flow,            \* per process: where it is in main's trading flow
    cand,            \* the candidate the book-processing flow is looking at
    trade,           \* per task: the opportunity it was spawned with
    prog,            \* per task: the ledger calls its registration still makes
    nbook,           \* book updates consumed so far
    gatelog,         \* the would_exceed_limit calls made: arguments and result
    dispatched,      \* the book updates whose candidate was handed to a task
    tasklog,         \* per task: what it has done for its current trade
    config,          \* the configuration the dispatch guards read
    update,          \* the book update the flow took last, until the gate decides
    pair_result,     \* per task: the fills execute_arbitrage_pair returned
    action,          \* per task: what handle_order_pair returned
    logged,          \* per task: the level of the line its handler logged
    yes_book,        \* the books handed to check_arbitrage (SpecEval)
    no_book,
    found,           \* what check_arbitrage returned
    evaluated,       \* check_arbitrage has been applied
    mpc,             \* where run_merge_task is
    inventory,       \* the positions get_positions returned, until they are dropped
    condition_ids,   \* the markets of the cycle, in the order they are processed
    idx,             \* markets of the cycle already handled (i of the for loop)
    merge_result,    \* result of the last merge_max call
    inflight,        \* merge_max calls in flight
    mlog,            \* what the merge task has done in the current cycle
    now,             \* Utc::now(), in whole seconds
    refresh_advance_secs, \* MarketScheduler.refresh_advance_secs
    win,             \* what the window functions returned for now (SpecWindow)
    spc,             \* where main is in fetching the markets of a window
    fetched,         \* what get_markets_immediately_or_wait returned
    branch,          \* the branch main took on that result
    retrying,        \* the last query of wait_for_next_window came back empty or failed
    slept,           \* the wait_time the current iteration of wait_for_next_window slept
    mon,             \* where main is in the monitoring loop of a window
    window_ts,       \* current_window_timestamp, recorded when monitoring began
    timer,           \* seconds left of the sleep(5) of the current select!
    book_in          \* seconds until the stream yields its next book

tradevars == <<flow, cand, trade, prog, nbook, gatelog, dispatched, tasklog, config,
               update, pair_result, action, logged>>

evalvars == <<yes_book, no_book, found, evaluated>>

mergevars == <<mpc, inventory, condition_ids, idx, merge_result, inflight, mlog>>

schedvars == <<now, refresh_advance_secs, win, spc, fetched, branch, retrying, slept,
               mon, window_ts, timer, book_in>>

ledgervars == <<positions, exposure_costs, shard_of, locks, pc, call, loc, ncalls,
                issued, hist, delta_sum, discarded>>

vars == <<positions, exposure_costs, shard_of, locks, pc, call, loc, ncalls,
          issued, hist, delta_sum, discarded, flow, cand, trade, prog, nbook,
          gatelog, dispatched, tasklog, yes_book, no_book, found, evaluated,
          mpc, inventory, condition_ids, idx, merge_result, inflight, mlog, config,
          update, pair_result, action, logged, now, refresh_advance_secs, win, spc,
          fetched, branch, retrying, slept, mon, window_ts, timer, book_in>>

PositionsStore == "positions"
CostsStore == "exposure_costs"
LockIds == {PositionsStore, CostsStore} \X Shards

NoLocals == [current_pos |-> Zero, remove |-> FALSE, shard |-> 1, acc |-> Zero,
             result |-> Zero]

Unlocked == [w |-> NoProc, r |-> {}]

\* a write guard needs the shard to itself; a read guard needs no writer
WriteFree(l) == locks[l].w = NoProc /\ locks[l].r = {}
ReadFree(l) == locks[l].w = NoProc

PositionsLock(t) == <<PositionsStore, shard_of[t]>>
CostsLock(t) == <<CostsStore, shard_of[t]>>

HeldBy(p) == {l \in LockIds : locks[l].w = p \/ p \in locks[l].r}

\* the guard the next step of p asks of DashMap is available: entry() and
\* remove() take the shard's write lock, get() and iter() its read lock
Ready(p) ==
    /\ pc[p] # "idle"
    /\ pc[p] = "up_entry" => WriteFree(PositionsLock(call[p].token))
    /\ pc[p] \in {"up_remove", "uec_entry", "uec_remove"}
           => WriteFree(CostsLock(call[p].token))
    /\ pc[p] = "uec_get" => ReadFree(PositionsLock(call[p].token))
    /\ pc[p] = "ce_iter" => ReadFree(<<CostsStore, loc[p].shard>>)

LedgerInit ==
    /\ positions = EmptyMap
    /\ exposure_costs = EmptyMap
    /\ shard_of \in {f \in [Tokens -> Shards] : f[1] = 1}
    /\ locks = [l \in LockIds |-> Unlocked]
    /\ pc = [p \in Procs |-> "idle"]
    /\ call = [p \in Procs |-> NoCall]
    /\ loc = [p \in Procs |-> NoLocals]
    /\ ncalls = 0
    /\ issued = EmptyBag
    /\ hist = <<>>
    /\ delta_sum = [t \in Tokens |-> Zero]
    /\ discarded = [t \in Tokens |-> Zero]
    /\ flow = [p \in Procs |-> IF p = MainFlow THEN "wait" ELSE "free"]
    /\ cand = NoOpportunity
    /\ trade = [t \in Tasks |-> NoOpportunity]
    /\ prog = [t \in Tasks |-> <<>>]
    /\ nbook = 0
    /\ gatelog = <<>>
    /\ dispatched = <<>>
    /\ tasklog = [t \in Tasks |-> <<>>]
    /\ update = NoUpdate
    /\ pair_result = [t \in Tasks |-> NoResult]
    /\ action = [t \in Tasks |-> NoAction]
    /\ logged = [t \in Tasks |-> "none"]

\* run_merge_task is about to fetch the inventory for the first time
MergeInit ==
    /\ mpc = "fetch"
    /\ inventory = {}
    /\ condition_ids = <<>>
    /\ idx = 0
    /\ merge_result = "none"
    /\ inflight = 0
    /\ mlog = <<>>

\* main is neither fetching markets nor monitoring a window
SchedIdle ==
    /\ now = EtOffsetSecs
    /\ refresh_advance_secs = 0
    /\ win = None
    /\ spc = "off"
    /\ fetched = None
    /\ branch = "none"
    /\ retrying = FALSE
    /\ slept = 0
    /\ mon = "off"
    /\ window_ts = 0
    /\ timer = 0
    /\ book_in = 0

\* no book is under evaluation
NoBooks ==
    /\ yes_book = <<>>
    /\ no_book = <<>>
    /\ found = None
    /\ evaluated = FALSE

\* ------------------------------------------------------------------------
\* PositionTracker::update_position (positions.rs 21-51)
\* ------------------------------------------------------------------------
\* faulty variant: the snap leaves the stored quantity as it is (line 36 missing)
PositionEntryUpdateNoReset(m, token, delta) ==
    LET sum == DAdd(MapGet(m, token), delta)
        should_remove == DLt(DAbs(sum), PositionEpsilon)
    IN  [store |-> MapPut(m, token, sum), should_remove |-> should_remove]

\* lines 25-38, under the entry's write guard: or_insert(0), += delta, and
\* the snap to zero; the entry itself is kept
PositionEntryUpdate(m, token, delta) ==
    LET sum == DAdd(MapGet(m, token), delta)
        should_remove == DLt(DAbs(sum), PositionEpsilon)
    IN  [store |-> MapPut(m, token, IF should_remove THEN Zero ELSE sum),
         should_remove |-> should_remove]

\* the call is over: the process is idle again and keeps only its result
Return(p, result) ==
    /\ pc' = [pc EXCEPT ![p] = "idle"]
    /\ call' = [call EXCEPT ![p] = NoCall]
    /\ loc' = [loc EXCEPT ![p] = [NoLocals EXCEPT !.result = result]]

\* line 25-38: take the entry (shard write lock) and update it
UpEntry(p) ==
    /\ pc[p] = "up_entry"
    /\ Ready(p)
    /\ LET t == call[p].token
           u == PositionEntryUpdate(positions, t, call[p].delta)
       IN  /\ positions' = u.store
           /\ locks' = [locks EXCEPT ![PositionsLock(t)].w = p]
           /\ loc' = [loc EXCEPT ![p].remove = u.should_remove]
           /\ delta_sum' = [delta_sum EXCEPT ![t] = DAdd(@, call[p].delta)]
           /\ discarded' = [discarded EXCEPT
                               ![t] = IF u.should_remove
                                      THEN DAdd(@, DAdd(MapGet(positions, t),
                                                        call[p].delta))
                                      ELSE @]
    /\ pc' = [pc EXCEPT ![p] = "up_drop"]
    /\ UNCHANGED <<exposure_costs, shard_of, call, ncalls, issued, hist, tradevars, evalvars, schedvars, mergevars>>

\* faulty variant: the cost entry is removed whether or not the position was snapped
UpDropAlwaysRemoves(p) ==
    /\ pc[p] = "up_drop"
    /\ locks' = [locks EXCEPT ![PositionsLock(call[p].token)].w = NoProc]
    /\ pc' = [pc EXCEPT ![p] = "up_remove"]
    /\ UNCHANGED <<call, loc>>
    /\ UNCHANGED <<positions, exposure_costs, shard_of, ncalls, issued, hist,
                   delta_sum, discarded, tradevars, evalvars, schedvars, mergevars>>

\* line 40: drop(entry); line 44: return unless should_remove
UpDrop(p) ==
    /\ pc[p] = "up_drop"
    /\ locks' = [locks EXCEPT ![PositionsLock(call[p].token)].w = NoProc]
    /\ IF loc[p].remove
       THEN /\ pc' = [pc EXCEPT ![p] = "up_remove"]
            /\ UNCHANGED <<call, loc>>
       ELSE Return(p, Zero)
    /\ UNCHANGED <<positions, exposure_costs, shard_of, ncalls, issued, hist,
                   delta_sum, discarded,
                   tradevars, evalvars, schedvars, mergevars>>

\* line 46: exposure_costs.remove(&token_id)
UpRemove(p) ==
    /\ pc[p] = "up_remove"
    /\ Ready(p)
    /\ exposure_costs' = MapRemove(exposure_costs, call[p].token)
    /\ Return(p, Zero)
    /\ UNCHANGED <<positions, shard_of, locks, ncalls, issued, hist, delta_sum,
                   discarded,
                   tradevars, evalvars, schedvars, mergevars>>

\* ------------------------------------------------------------------------
\* PositionTracker::update_exposure_cost (positions.rs 56-124)
\* ------------------------------------------------------------------------
\* faulty variant: the delta == 0 return of line 59 is missing
CostFirstStepNoZeroCheck(delta) ==
    IF DLt(delta, Zero) THEN "uec_get" ELSE "uec_entry"

\* lines 59-78: where the call goes first
CostFirstStep(delta) ==
    IF delta = Zero THEN "idle"
    ELSE IF DLt(delta, Zero) THEN "uec_get"
    ELSE "uec_entry"

\* faulty variant: a sell takes price * amount off the cost instead of the pro-rata
\* share
CostEntryUpdateSellAtPrice(m, token, price, delta, current_pos) ==
    LET old == MapGet(m, token)
        new == IF DLt(Zero, delta)
               THEN DAdd(old, DMul(price, delta))
               ELSE IF DLt(Zero, current_pos)
                    THEN LET sell_amount == DMin(DNeg(delta), current_pos)
                         IN  DMax(DSub(old, DMul(price, sell_amount)), Zero)
                    ELSE Zero
        remove == DLt(new, OneCent)
    IN  [store |-> MapPut(m, token, IF remove THEN Zero ELSE new),
         remove |-> remove]

\* faulty variant: a buy overwrites the cost with price * delta (= for +=)
CostEntryUpdateOverwrite(m, token, price, delta, current_pos) ==
    LET old == MapGet(m, token)
        new == IF DLt(Zero, delta)
               THEN DMul(price, delta)
               ELSE IF DLt(Zero, current_pos)
                    THEN LET sell_amount == DMin(DNeg(delta), current_pos)
                             reduction_ratio == DDiv(sell_amount, current_pos)
                         IN  DMax(DMul(old, DSub(One, reduction_ratio)), Zero)
                    ELSE Zero
        remove == DLt(new, OneCent)
    IN  [store |-> MapPut(m, token, IF remove THEN Zero ELSE new),
         remove |-> remove]

\* faulty variant: the clean-up of line 109 only fires at exactly zero
CostEntryUpdateKeepsSubCent(m, token, price, delta, current_pos) ==
    LET old == MapGet(m, token)
        new == IF DLt(Zero, delta)
               THEN DAdd(old, DMul(price, delta))
               ELSE IF DLt(Zero, current_pos)
                    THEN LET sell_amount == DMin(DNeg(delta), current_pos)
                             reduction_ratio == DDiv(sell_amount, current_pos)
                         IN  DMax(DMul(old, DSub(One, reduction_ratio)), Zero)
                    ELSE Zero
        remove == new = Zero
    IN  [store |-> MapPut(m, token, IF remove THEN Zero ELSE new),
         remove |-> remove]

\* lines 82-113, under the entry's write guard: or_insert(0), the buy or the
\* pro-rata sell, and the sub-cent reset; remove: the entry is to be removed
CostEntryUpdate(m, token, price, delta, current_pos) ==
    LET old == MapGet(m, token)
        new == IF DLt(Zero, delta)
               THEN DAdd(old, DMul(price, delta))
               ELSE IF DLt(Zero, current_pos)
                    THEN LET sell_amount == DMin(DNeg(delta), current_pos)
                             reduction_ratio == DDiv(sell_amount, current_pos)
                         IN  DMax(DMul(old, DSub(One, reduction_ratio)), Zero)
                    ELSE Zero
        remove == DLt(new, OneCent)
    IN  [store |-> MapPut(m, token, IF remove THEN Zero ELSE new),
         remove |-> remove]

\* line 70: positions.get(&token_id) takes the shard's read guard
UecGet(p) ==
    /\ pc[p] = "uec_get"
    /\ Ready(p)
    /\ locks' = [locks EXCEPT ![PositionsLock(call[p].token)].r = @ \cup {p}]
    /\ pc' = [pc EXCEPT ![p] = "uec_read"]
    /\ UNCHANGED <<positions, exposure_costs, shard_of, call, loc, ncalls, issued,
                   hist, delta_sum, discarded,
                   tradevars, evalvars, schedvars, mergevars>>

\* faulty variant: the read guard of line 70 stays alive past line 72
UecReadKeepsGuard(p) ==
    /\ pc[p] = "uec_read"
    /\ loc' = [loc EXCEPT ![p].current_pos = MapGet(positions, call[p].token)]
    /\ pc' = [pc EXCEPT ![p] = "uec_entry"]
    /\ UNCHANGED <<positions, exposure_costs, shard_of, locks, call, ncalls, issued,
                   hist, delta_sum, discarded, tradevars, evalvars, schedvars, mergevars>>

\* line 72: copy the quantity out (0 when absent); the guard is dropped
UecRead(p) ==
    /\ pc[p] = "uec_read"
    /\ loc' = [loc EXCEPT ![p].current_pos = MapGet(positions, call[p].token)]
    /\ locks' = [locks EXCEPT ![PositionsLock(call[p].token)].r = @ \ {p}]
    /\ pc' = [pc EXCEPT ![p] = "uec_entry"]
    /\ UNCHANGED <<positions, exposure_costs, shard_of, call, ncalls, issued, hist,
                   delta_sum, discarded,
                   tradevars, evalvars, schedvars, mergevars>>

\* lines 82-113: take the cost entry (shard write lock) and update it
UecEntry(p) ==
    /\ pc[p] = "uec_entry"
    /\ Ready(p)
    /\ LET c == call[p]
           u == CostEntryUpdate(exposure_costs, c.token, c.price, c.delta,
                                loc[p].current_pos)
       IN  /\ exposure_costs' = u.store
           /\ loc' = [loc EXCEPT ![p].remove = u.remove]
    /\ locks' = [locks EXCEPT ![CostsLock(call[p].token)].w = p]
    /\ pc' = [pc EXCEPT ![p] = "uec_drop"]
    /\ UNCHANGED <<positions, shard_of, call, ncalls, issued, hist, delta_sum,
                   discarded,
                   tradevars, evalvars, schedvars, mergevars>>

\* lines 114 and 120: drop(entry); only the sub-cent branch goes on to remove
UecDrop(p) ==
    /\ pc[p] = "uec_drop"
    /\ locks' = [locks EXCEPT ![CostsLock(call[p].token)].w = NoProc]
    /\ IF loc[p].remove
       THEN /\ pc' = [pc EXCEPT ![p] = "uec_remove"]
            /\ UNCHANGED <<call, loc>>
       ELSE Return(p, Zero)
    /\ UNCHANGED <<positions, exposure_costs, shard_of, ncalls, issued, hist,
                   delta_sum, discarded,
                   tradevars, evalvars, schedvars, mergevars>>

\* line 116: exposure_costs.remove(&token_id)
UecRemove(p) ==
    /\ pc[p] = "uec_remove"
    /\ Ready(p)
    /\ exposure_costs' = MapRemove(exposure_costs, call[p].token)
    /\ Return(p, Zero)
    /\ UNCHANGED <<positions, shard_of, locks, ncalls, issued, hist, delta_sum,
                   discarded,
                   tradevars, evalvars, schedvars, mergevars>>

\* ------------------------------------------------------------------------
\* PositionTracker::calculate_exposure (positions.rs 155-163)
\* ------------------------------------------------------------------------
KeysInShard(m, s) == {k \in DOMAIN m : shard_of[k] = s}

\* lines 158-161: the iterator reads the next shard under its read guard and
\* the values are copied out
CeIter(p) ==
    /\ pc[p] = "ce_iter"
    /\ Ready(p)
    /\ locks' = [locks EXCEPT ![<<CostsStore, loc[p].shard>>].r = @ \cup {p}]
    /\ loc' = [loc EXCEPT
                  ![p].acc = DAdd(@, SumOver(exposure_costs,
                                             KeysInShard(exposure_costs, loc[p].shard)))]
    /\ pc' = [pc EXCEPT ![p] = "ce_next"]
    /\ UNCHANGED <<positions, exposure_costs, shard_of, call, ncalls, issued, hist,
                   delta_sum, discarded,
                   tradevars, evalvars, schedvars, mergevars>>

\* faulty variant: the traversal stops after the first shard
CeNextFirstShardOnly(p) ==
    /\ pc[p] = "ce_next"
    /\ locks' = [locks EXCEPT ![<<CostsStore, loc[p].shard>>].r = @ \ {p}]
    /\ Return(p, loc[p].acc)
    /\ UNCHANGED <<positions, exposure_costs, shard_of, ncalls, issued, hist,
                   delta_sum, discarded,
                   tradevars, evalvars, schedvars, mergevars>>

\* the iterator leaves the shard; after the last one, line 162 sums the copy
CeNext(p) ==
    /\ pc[p] = "ce_next"
    /\ locks' = [locks EXCEPT ![<<CostsStore, loc[p].shard>>].r = @ \ {p}]
    /\ IF loc[p].shard < NumShards
       THEN /\ loc' = [loc EXCEPT ![p].shard = @ + 1]
            /\ pc' = [pc EXCEPT ![p] = "ce_iter"]
            /\ UNCHANGED call
       ELSE Return(p, loc[p].acc)
    /\ UNCHANGED <<positions, exposure_costs, shard_of, ncalls, issued, hist,
                   delta_sum, discarded,
                   tradevars, evalvars, schedvars, mergevars>>

\* ------------------------------------------------------------------------
\* PositionTracker::get_position, calculate_imbalance (positions.rs 131-151)
\* ------------------------------------------------------------------------
GetPosition(m, token_id) == MapGet(m, token_id)

CalculateImbalance(m, yes_token, no_token) ==
    LET yes_pos == GetPosition(m, yes_token)
        no_pos == GetPosition(m, no_token)
        total == DAdd(yes_pos, no_pos)
    IN  IF total = Zero THEN Zero
        ELSE DDiv(DAbs(DSub(yes_pos, no_pos)), total)

\* ------------------------------------------------------------------------
\* A process enters a call
\* ------------------------------------------------------------------------
FirstStep(c) ==
    IF c.op = OpUpdatePosition THEN "up_entry"
    ELSE IF c.op = OpUpdateExposureCost THEN CostFirstStep(c.delta)
    ELSE "ce_iter"

Begin(p, c) ==
    /\ pc[p] = "idle"
    /\ pc' = [pc EXCEPT ![p] = FirstStep(c)]
    /\ call' = [call EXCEPT ![p] = IF FirstStep(c) = "idle" THEN NoCall ELSE c]
    /\ loc' = [loc EXCEPT ![p] = NoLocals]
    /\ UNCHANGED <<positions, exposure_costs, shard_of, locks, delta_sum, discarded>>

LedgerStep(p) ==
    \/ UpEntry(p)
    \/ UpDrop(p)
    \/ UpRemove(p)
    \/ UecGet(p)
    \/ UecRead(p)
    \/ UecEntry(p)
    \/ UecDrop(p)
    \/ UecRemove(p)
    \/ CeIter(p)
    \/ CeNext(p)

\* ------------------------------------------------------------------------
\* Spec: independent tasks calling the ledger concurrently
\* ------------------------------------------------------------------------
Issue(p, c) ==
    /\ ncalls < MaxCalls
    /\ Begin(p, c)
    /\ ncalls' = ncalls + 1
    /\ issued' = issued (+) SetToBag({c})
    /\ UNCHANGED <<hist, tradevars, evalvars, schedvars, mergevars>>

Init == LedgerInit /\ NoBooks /\ MergeInit /\ SchedIdle /\ config = GuardsOn

Next ==
    \/ \E p \in Tasks, c \in CallsOver(Tokens, Deltas, Prices) : Issue(p, c)
    \/ \E p \in Tasks : LedgerStep(p)

Spec == Init /\ [][Next]_vars

\* ------------------------------------------------------------------------
\* SpecSeq: one caller, one call at a time
\* ------------------------------------------------------------------------
Caller == CHOOSE t \in Tasks : \A u \in Tasks : t <= u

LastTwo(h) == IF Len(h) <= 2 THEN h ELSE Tail(h)

IssueSeq(c) ==
    /\ ncalls < MaxSeqCalls
    /\ Begin(Caller, c)
    /\ ncalls' = ncalls + 1
    /\ hist' = LastTwo(Append(hist, [call |-> c, positions |-> positions,
                                     exposure_costs |-> exposure_costs]))
    /\ UNCHANGED <<issued, tradevars, evalvars, schedvars, mergevars>>

NextSeq ==
    \/ \E c \in SeqCalls : IssueSeq(c)
    \/ LedgerStep(Caller)

SpecSeq == Init /\ [][NextSeq]_vars

\* ------------------------------------------------------------------------
\* SpecTrade: the book-processing flow of main and the tasks it spawns
\* (main.rs 424-517)
\* ------------------------------------------------------------------------
\* line 427: config.max_order_size_usdc, 100.0 when it does not convert
max_order_size == Dec(100, 1)

\* lines 428-430
OrderSize(opp) == DMin(DMin(opp.yes_size, opp.no_size), max_order_size)
YesCost(opp) == DMul(opp.yes_ask_price, OrderSize(opp))
NoCost(opp) == DMul(opp.no_ask_price, OrderSize(opp))

\* faulty variant: an order that reaches the ceiling counts as exceeding it
WouldExceedLimitAtCeiling(current_exposure, yes_cost, no_cost) ==
    DLe(max_exposure, DAdd(current_exposure, DAdd(yes_cost, no_cost)))

\* positions.rs 172-176, on the exposure that calculate_exposure returned
WouldExceedLimit(current_exposure, yes_cost, no_cost) ==
    DLt(max_exposure, DAdd(current_exposure, DAdd(yes_cost, no_cost)))

\* RiskManager::register_order_pair: each leg that filled is entered in the
\* ledger with update_position and update_exposure_cost at the leg's ask price
RegisterOrderPair(opp, yes_filled, no_filled) ==
    (IF DLt(Zero, yes_filled)
     THEN <<PositionCall(opp.yes_token_id, yes_filled),
            CostCall(opp.yes_token_id, opp.yes_ask_price, yes_filled)>>
     ELSE <<>>)
    \o (IF DLt(Zero, no_filled)
        THEN <<PositionCall(opp.no_token_id, no_filled),
               CostCall(opp.no_token_id, opp.no_ask_price, no_filled)>>
        ELSE <<>>)

\* lines 379-380: 1 - config.arbitrage_execution_spread, the spread being 0.01
\* when the configured one does not convert
arbitrage_execution_spread == Dec(1, 100)
execution_threshold == DSub(One, arbitrage_execution_spread)

\* lines 321-325: the sum of the two best asks as the books give them
TotalAskPrice(pair) ==
    IF pair.yes_book = <<>> \/ pair.no_book = <<>> THEN None
    ELSE Some(DAdd(pair.yes_book[Len(pair.yes_book)].price,
                   pair.no_book[Len(pair.no_book)].price))

\* lines 381-387: the detector is asked only when the total is within the
\* execution threshold
Candidate(pair) ==
    LET total_ask_price == TotalAskPrice(pair)
    IN  IF total_ask_price = None THEN None
        ELSE IF DLe(total_ask_price[1], execution_threshold)
        THEN CheckArbitrage(pair.yes_book, pair.no_book)
        ELSE None

\* what would_exceed_limit was called with and what it returned
GateEntry(over) ==
    [id |-> nbook, exposure |-> loc[MainFlow].result, yes_cost |-> YesCost(cand),
     no_cost |-> NoCost(cand), over |-> over]

\* lines 389-402: the opportunity's YES price is not under the threshold,
\* when one is set
PassesYesPrice(opp) ==
    ~(DLt(Zero, config.min_yes_price_threshold)
      /\ DLt(opp.yes_ask_price, config.min_yes_price_threshold))

\* lines 405-422: the market, when it is known and a stop time is set, is
\* more whole minutes from its end than the stop time
PassesStopWindow(u) ==
    ~(config.stop_arbitrage_before_end_minutes > 0
      /\ u.market_known
      /\ u.minutes_until_end <= config.stop_arbitrage_before_end_minutes)

\* lines 381-422: the update gets as far as the exposure check
ReachesGate(u) ==
    /\ Candidate(u.pair) # None
    /\ PassesYesPrice(Candidate(u.pair)[1])
    /\ PassesStopWindow(u)

\* faulty variant: the YES price threshold is not looked at
BookUpdateAnyYesPrice(u) ==
    /\ flow[MainFlow] = "wait"
    /\ nbook < MaxBookUpdates
    /\ \E t \in Tasks : flow[t] = "free"
    /\ Candidate(u.pair) # None
    /\ PassesStopWindow(u)
    /\ Begin(MainFlow, ExposureCall)
    /\ cand' = Candidate(u.pair)[1]
    /\ nbook' = nbook + 1
    /\ flow' = [flow EXCEPT ![MainFlow] = "log_exposure"]
    /\ update' = u
    /\ UNCHANGED <<ncalls, issued, hist, trade, prog, gatelog, dispatched, tasklog,
                   evalvars, schedvars, mergevars,
                   config, pair_result, action, logged>>

\* lines 307-435: a book update brings a candidate that passes the guards;
\* line 435 reads the current exposure for the log
BookUpdate(u) ==
    /\ flow[MainFlow] = "wait"
    /\ nbook < MaxBookUpdates
    /\ \E t \in Tasks : flow[t] = "free"
    /\ ReachesGate(u)
    /\ Begin(MainFlow, ExposureCall)
    /\ cand' = Candidate(u.pair)[1]
    /\ nbook' = nbook + 1
    /\ flow' = [flow EXCEPT ![MainFlow] = "log_exposure"]
    /\ update' = u
    /\ UNCHANGED <<ncalls, issued, hist, trade, prog, gatelog, dispatched, tasklog,
                   evalvars, schedvars, mergevars,
                   config, pair_result, action, logged>>

\* lines 381-422: the update brings no candidate, or the candidate is skipped
\* by the YES price threshold or the stop-before-end window (continue)
BookSkip(u) ==
    /\ flow[MainFlow] = "wait"
    /\ nbook < MaxBookUpdates
    /\ ~ReachesGate(u)
    /\ nbook' = nbook + 1
    /\ update' = u
    /\ UNCHANGED <<positions, exposure_costs, shard_of, locks, pc, call, loc, ncalls,
                   issued, hist, delta_sum, discarded, flow, cand, trade, prog,
                   gatelog, dispatched, tasklog, evalvars, schedvars, mergevars,
                   config, pair_result, action, logged>>

\* line 437: would_exceed_limit calls calculate_exposure itself (line 173)
GateCall ==
    /\ flow[MainFlow] = "log_exposure"
    /\ Begin(MainFlow, ExposureCall)
    /\ flow' = [flow EXCEPT ![MainFlow] = "gate"]
    /\ UNCHANGED <<ncalls, issued, hist, cand, trade, prog, nbook, gatelog,
                   dispatched, tasklog, evalvars, schedvars, mergevars,
                   config, update, pair_result, action, logged>>

\* lines 437-446: over the limit, the candidate is dropped (continue)
GateReject ==
    /\ flow[MainFlow] = "gate"
    /\ pc[MainFlow] = "idle"
    /\ WouldExceedLimit(loc[MainFlow].result, YesCost(cand), NoCost(cand))
    /\ flow' = [flow EXCEPT ![MainFlow] = "wait"]
    /\ cand' = NoOpportunity
    /\ gatelog' = Append(gatelog, GateEntry(
                       WouldExceedLimit(loc[MainFlow].result, YesCost(cand), NoCost(cand))))
    /\ update' = NoUpdate
    /\ UNCHANGED <<positions, exposure_costs, shard_of, locks, pc, call, loc, ncalls,
                   issued, hist, delta_sum, discarded, trade, prog, nbook,
                   dispatched, tasklog, evalvars, schedvars, mergevars,
                   config, pair_result, action, logged>>

\* faulty variant: the task is spawned whatever would_exceed_limit returned
GateAdmitUnchecked(t) ==
    /\ flow[MainFlow] = "gate"
    /\ pc[MainFlow] = "idle"
    /\ flow[t] = "free"
    /\ flow' = [flow EXCEPT ![MainFlow] = "wait", ![t] = "executing"]
    /\ trade' = [trade EXCEPT ![t] = cand]
    /\ cand' = NoOpportunity
    /\ gatelog' = Append(gatelog, GateEntry(
                       WouldExceedLimit(loc[MainFlow].result, YesCost(cand), NoCost(cand))))
    /\ dispatched' = Append(dispatched, nbook)
    /\ tasklog' = [tasklog EXCEPT ![t] = <<>>]
    /\ update' = NoUpdate
    /\ logged' = [logged EXCEPT ![t] = "none"]
    /\ UNCHANGED <<positions, exposure_costs, shard_of, locks, pc, call, loc, ncalls,
                   issued, hist, delta_sum, discarded, prog, nbook, evalvars, schedvars, mergevars,
                   config, pair_result, action>>

\* faulty variant: the flow awaits the trade it has just handed over
GateAdmitAwaits(t) ==
    /\ flow[MainFlow] = "gate"
    /\ pc[MainFlow] = "idle"
    /\ ~WouldExceedLimit(loc[MainFlow].result, YesCost(cand), NoCost(cand))
    /\ flow[t] = "free"
    /\ flow' = [flow EXCEPT ![MainFlow] = "join", ![t] = "executing"]
    /\ trade' = [trade EXCEPT ![t] = cand]
    /\ cand' = NoOpportunity
    /\ gatelog' = Append(gatelog, GateEntry(
                       WouldExceedLimit(loc[MainFlow].result, YesCost(cand), NoCost(cand))))
    /\ dispatched' = Append(dispatched, nbook)
    /\ tasklog' = [tasklog EXCEPT ![t] = <<>>]
    /\ update' = NoUpdate
    /\ logged' = [logged EXCEPT ![t] = "none"]
    /\ UNCHANGED <<positions, exposure_costs, shard_of, locks, pc, call, loc, ncalls,
                   issued, hist, delta_sum, discarded, prog, nbook, evalvars, schedvars, mergevars,
                   config, pair_result, action>>

\* lines 448-463: admitted, tokio::spawn; the flow goes back to the stream
GateAdmit(t) ==
    /\ flow[MainFlow] = "gate"
    /\ pc[MainFlow] = "idle"
    /\ ~WouldExceedLimit(loc[MainFlow].result, YesCost(cand), NoCost(cand))
    /\ flow[t] = "free"
    /\ flow' = [flow EXCEPT ![MainFlow] = "wait", ![t] = "executing"]
    /\ trade' = [trade EXCEPT ![t] = cand]
    /\ cand' = NoOpportunity
    /\ gatelog' = Append(gatelog, GateEntry(
                       WouldExceedLimit(loc[MainFlow].result, YesCost(cand), NoCost(cand))))
    /\ dispatched' = Append(dispatched, nbook)
    /\ tasklog' = [tasklog EXCEPT ![t] = <<>>]
    /\ update' = NoUpdate
    /\ logged' = [logged EXCEPT ![t] = "none"]
    /\ UNCHANGED <<positions, exposure_costs, shard_of, locks, pc, call, loc, ncalls,
                   issued, hist, delta_sum, discarded, prog, nbook, evalvars, schedvars, mergevars,
                   config, pair_result, action>>

\* the fills an execution can report for a leg of the given size: nothing,
\* a dust amount, the whole size
Fills(size) == {Zero, Dec(1, 20000), size}

\* lines 465-478: execute_arbitrage_pair returned Ok(result) and
\* register_order_pair is entered
ExecuteOk(t, yes_filled, no_filled) ==
    /\ flow[t] = "executing"
    /\ flow' = [flow EXCEPT ![t] = "registering"]
    /\ prog' = [prog EXCEPT ![t] = RegisterOrderPair(trade[t], yes_filled, no_filled)]
    /\ tasklog' = [tasklog EXCEPT ![t] = Append(@, "execute") \o <<"register">>]
    /\ pair_result' = [pair_result EXCEPT ![t] = OrderPairResult(yes_filled, no_filled)]
    /\ UNCHANGED <<positions, exposure_costs, shard_of, locks, pc, call, loc, ncalls,
                   issued, hist, delta_sum, discarded, cand, trade, nbook, gatelog,
                   dispatched, evalvars, schedvars, mergevars,
                   config, update, action, logged>>

\* lines 505-515: execute_arbitrage_pair returned Err, which is logged
ExecuteErr(t) ==
    /\ flow[t] = "executing"
    /\ flow' = [flow EXCEPT ![t] = "free"]
    /\ trade' = [trade EXCEPT ![t] = NoOpportunity]
    /\ tasklog' = [tasklog EXCEPT ![t] = Append(@, "execute_err")]
    /\ logged' = [logged EXCEPT ![t] = "error"]
    /\ UNCHANGED <<positions, exposure_costs, shard_of, locks, pc, call, loc, ncalls,
                   issued, hist, delta_sum, discarded, cand, prog, nbook, gatelog,
                   dispatched, evalvars, schedvars, mergevars,
                   config, update, pair_result, action>>

\* register_order_pair makes its next ledger call
RegisterCall(t) ==
    /\ flow[t] = "registering"
    /\ prog[t] # <<>>
    /\ Begin(t, Head(prog[t]))
    /\ prog' = [prog EXCEPT ![t] = Tail(@)]
    /\ UNCHANGED <<ncalls, issued, hist, flow, cand, trade, nbook, gatelog,
                   dispatched, tasklog, evalvars, schedvars, mergevars,
                   config, update, pair_result, action, logged>>

\* faulty variant: handle_order_pair is called without waiting for
\* register_order_pair to return
HandleOrderPairEarly(t) ==
    /\ flow[t] = "registering"
    /\ flow' = [flow EXCEPT ![t] = "classifying"]
    /\ tasklog' = [tasklog EXCEPT ![t] = Append(@, "classify")]
    /\ action' = [action EXCEPT ![t] = Classify(pair_result[t].yes_filled,
                                                 pair_result[t].no_filled,
                                                 trade[t].yes_token_id,
                                                 trade[t].no_token_id)]
    /\ pair_result' = [pair_result EXCEPT ![t] = NoResult]
    /\ UNCHANGED <<positions, exposure_costs, shard_of, locks, pc, call, loc, ncalls,
                   issued, hist, delta_sum, discarded, cand, trade, prog, nbook,
                   gatelog, dispatched, evalvars, schedvars, mergevars,
                   config, update, logged>>

\* line 482: register_order_pair has returned; handle_order_pair is called
HandleOrderPair(t) ==
    /\ flow[t] = "registering"
    /\ prog[t] = <<>>
    /\ pc[t] = "idle"
    /\ flow' = [flow EXCEPT ![t] = "classifying"]
    /\ tasklog' = [tasklog EXCEPT ![t] = Append(@, "classify")]
    /\ action' = [action EXCEPT ![t] = Classify(pair_result[t].yes_filled,
                                                 pair_result[t].no_filled,
                                                 trade[t].yes_token_id,
                                                 trade[t].no_token_id)]
    /\ pair_result' = [pair_result EXCEPT ![t] = NoResult]
    /\ UNCHANGED <<positions, exposure_costs, shard_of, locks, pc, call, loc, ncalls,
                   issued, hist, delta_sum, discarded, cand, trade, prog, nbook,
                   gatelog, dispatched, evalvars, schedvars, mergevars,
                   config, update, logged>>

\* lines 482 and 500-502: handle_order_pair returned Err
HandleOrderPairErr(t) ==
    /\ flow[t] = "registering"
    /\ prog[t] = <<>>
    /\ pc[t] = "idle"
    /\ flow' = [flow EXCEPT ![t] = "classifying"]
    /\ tasklog' = [tasklog EXCEPT ![t] = Append(@, "classify")]
    /\ action' = [action EXCEPT ![t] = HandleFailed]
    /\ pair_result' = [pair_result EXCEPT ![t] = NoResult]
    /\ UNCHANGED <<positions, exposure_costs, shard_of, locks, pc, call, loc, ncalls,
                   issued, hist, delta_sum, discarded, cand, trade, prog, nbook,
                   gatelog, dispatched, evalvars, schedvars, mergevars,
                   config, update, logged>>

\* lines 483-503: the recovery action (or the error) is only logged
TaskDone(t) ==
    /\ flow[t] = "classifying"
    /\ flow' = [flow EXCEPT ![t] = "free"]
    /\ trade' = [trade EXCEPT ![t] = NoOpportunity]
    /\ logged' = [logged EXCEPT ![t] = HandlerLog(action[t])]
    /\ action' = [action EXCEPT ![t] = NoAction]
    /\ UNCHANGED <<positions, exposure_costs, shard_of, locks, pc, call, loc, ncalls,
                   issued, hist, delta_sum, discarded, cand, prog, nbook, gatelog,
                   dispatched, tasklog, evalvars, schedvars, mergevars,
                   config, update, pair_result>>

\* the trading flow only buys (every registered delta is a fill > 0), so the
\* position read of the sell path, UecGet and UecRead, is never entered
TradeLedgerStep(p) ==
    \/ UpEntry(p)
    \/ UpDrop(p)
    \/ UpRemove(p)
    \/ UecEntry(p)
    \/ UecDrop(p)
    \/ UecRemove(p)
    \/ CeIter(p)
    \/ CeNext(p)

NextTrade ==
    \/ \E u \in TradeUpdates : BookUpdate(u)
    \/ \E u \in TradeUpdates : BookSkip(u)
    \/ GateCall
    \/ GateReject
    \/ \E t \in Tasks : GateAdmit(t)
    \/ \E t \in Tasks :
           \E yf \in Fills(trade[t].yes_size), nf \in Fills(trade[t].no_size) :
               ExecuteOk(t, yf, nf)
    \/ \E t \in Tasks : ExecuteErr(t)
    \/ \E t \in Tasks : RegisterCall(t)
    \/ \E t \in Tasks : HandleOrderPair(t)
    \/ \E t \in Tasks : HandleOrderPairErr(t)
    \/ \E t \in Tasks : TaskDone(t)
    \/ \E p \in Procs : TradeLedgerStep(p)

\* the configuration is read at start-up and stays as it is
InitTrade == LedgerInit /\ NoBooks /\ MergeInit /\ SchedIdle /\ config \in Configs

SpecTrade == InitTrade /\ [][NextTrade]_vars

\* ------------------------------------------------------------------------
\* SpecEval: check_arbitrage applied to a pair of books
\* ------------------------------------------------------------------------
InitEval ==
    /\ LedgerInit
    /\ MergeInit
    /\ SchedIdle
    /\ config = GuardsOn
    /\ yes_book \in Books
    /\ no_book \in Books
    /\ found = None
    /\ evaluated = FALSE

Evaluate ==
    /\ ~evaluated
    /\ found' = CheckArbitrage(yes_book, no_book)
    /\ evaluated' = TRUE
    /\ UNCHANGED <<positions, exposure_costs, shard_of, locks, pc, call, loc, ncalls,
                   issued, hist, delta_sum, discarded, tradevars, yes_book, no_book,
                   mergevars, schedvars>>

NextEval == Evaluate

SpecEval == InitEval /\ [][NextEval]_vars

\* C1: the exposure, the sum of all cost entries, never exceeds max_exposure.
C1_ExposureWithinCeiling ==
    DLe(SumOver(exposure_costs, DOMAIN exposure_costs), max_exposure)

\* ------------------------------------------------------------------------
\* The methods run alone, start to end, on a ledger value
\* ------------------------------------------------------------------------
Ledger(pos, costs) == [positions |-> pos, exposure_costs |-> costs]

EmptyLedger == Ledger(EmptyMap, EmptyMap)

\* update_position, lines 25-48
RunUpdatePosition(led, token, delta) ==
    LET u == PositionEntryUpdate(led.positions, token, delta)
    IN  Ledger(u.store,
               IF u.should_remove THEN MapRemove(led.exposure_costs, token)
               ELSE led.exposure_costs)

\* update_exposure_cost, lines 59-121
RunUpdateExposureCost(led, token, price, delta) ==
    IF delta = Zero THEN led
    ELSE LET current_pos == IF DLt(delta, Zero) THEN MapGet(led.positions, token)
                            ELSE Zero
             u == CostEntryUpdate(led.exposure_costs, token, price, delta, current_pos)
         IN  Ledger(led.positions,
                    IF u.remove THEN MapRemove(u.store, token) ELSE u.store)

RunCall(led, c) ==
    IF c.op = OpUpdatePosition THEN RunUpdatePosition(led, c.token, c.delta)
    ELSE IF c.op = OpUpdateExposureCost
         THEN RunUpdateExposureCost(led, c.token, c.price, c.delta)
    ELSE led

\* the ledgers that the calls of a bag leave when run one after another, in
\* every order
RECURSIVE SequentialResults(_, _)
SequentialResults(led, calls) ==
    IF calls = EmptyBag THEN {led}
    ELSE UNION {SequentialResults(RunCall(led, c), calls (-) SetToBag({c})) :
                    c \in BagToSet(calls)}

\* the entry of a key: <<v>> when present, <<>> when absent
Entry(m, k) == IF k \in DOMAIN m THEN <<m[k]>> ELSE <<>>

Quiescent == \A p \in Procs : pc[p] = "idle"

C3_ZeroPositionHasZeroCost ==
    \A t \in Tokens :
        MapGet(positions, t) = Zero => MapGet(exposure_costs, t) = Zero

\* ------------------------------------------------------------------------
\* Claims about single calls and fills (SpecSeq)
\* ------------------------------------------------------------------------
Returned == pc[Caller] = "idle"

\* the call issued last, and the ledger it started from
Last == hist[Len(hist)]

\* the two calls issued last are the two halves of one fill
IsFill(a, b) ==
    /\ a.token = b.token
    /\ a.delta = b.delta
    /\ {a.op, b.op} = {OpUpdatePosition, OpUpdateExposureCost}

FillReturned == Len(hist) = 2 /\ Returned /\ IsFill(hist[1].call, hist[2].call)

\* the ledger the last fill started from
BeforeFill == Ledger(hist[1].positions, hist[1].exposure_costs)

\* C4: after a fill (both calls returned) the token has a position entry if
\* and only if it has a cost entry.
C4_EntriesCoexist ==
    (FillReturned /\ hist[1].call.delta # Zero) =>
        LET t == hist[1].call.token
        IN  (t \in DOMAIN positions) <=> (t \in DOMAIN exposure_costs)

\* ------------------------------------------------------------------------
\* C5: lock discipline and absence of deadlock (Spec)
\* ------------------------------------------------------------------------
HoldsIn(p, store) == \E s \in Shards : <<store, s>> \in HeldBy(p)

InUpdate(p) == call[p].op \in {OpUpdatePosition, OpUpdateExposureCost}

\* C5: inside update_position and update_exposure_cost no task holds a lock
\* of the position store together with a lock of the cost store, and whenever
\* some call is in progress some call can take its next step (no deadlock).
C5_LockDisciplineNoDeadlock ==
    /\ \A p \in Procs :
           InUpdate(p) => ~(HoldsIn(p, PositionsStore) /\ HoldsIn(p, CostsStore))
    /\ (\E p \in Procs : pc[p] # "idle") => \E q \in Procs : Ready(q)

\* update_position has let go of the position store and waits for the cost
\* shard, which another task holds
C5_Witness ==
    \E p, q \in Tasks :
        /\ pc[p] = "up_remove"
        /\ HeldBy(p) = {}
        /\ ~Ready(p)
        /\ locks[CostsLock(call[p].token)].w = q

\* ------------------------------------------------------------------------
\* C6: the stored quantity and the running sum of the deltas (SpecSeq)
\* ------------------------------------------------------------------------
Snap(x) == IF DLt(DAbs(x), PositionEpsilon) THEN Zero ELSE x

NoTinyPosition ==
    \A t \in Tokens :
        ~(DLt(Zero, DAbs(MapGet(positions, t)))
            /\ DLt(DAbs(MapGet(positions, t)), PositionEpsilon))

\* C6 as claimed: the stored quantity is the running sum of all the deltas,
\* snapped to zero when the sum's magnitude is below 1e-4.
C6_StoredIsSnappedRunningSum ==
    /\ \A t \in Tokens : MapGet(positions, t) = Snap(delta_sum[t])
    /\ NoTinyPosition

\* C6 amended: the stored quantity is the running sum of all the deltas less
\* the remainders that earlier snaps discarded, and its magnitude is never
\* strictly between 0 and 1e-4.
C6_StoredIsSumLessDiscarded ==
    /\ \A t \in Tokens :
           MapGet(positions, t) = DSub(delta_sum[t], discarded[t])
    /\ NoTinyPosition

\* a remainder was discarded and the token was bought again afterwards
C6_Witness ==
    \E t \in Tokens :
        /\ discarded[t] # Zero
        /\ MapGet(positions, t) # Zero
        /\ Returned

\* ------------------------------------------------------------------------
\* C7: a sell fill, update_exposure_cost first (SpecSeq)
\* ------------------------------------------------------------------------
SellFillReturned ==
    /\ FillReturned
    /\ hist[1].call.op = OpUpdateExposureCost
    /\ DLt(hist[1].call.delta, Zero)
    /\ DLt(Zero, MapGet(hist[1].positions, hist[1].call.token))

\* c * (1 - min(-delta, p) / p)
ProRata(c, p, delta) == DMul(c, DSub(One, DDiv(DMin(DNeg(delta), p), p)))

\* C7 as claimed: after the sell the cost is c * (1 - min(-delta, p) / p) and
\* the position is p + delta.
C7_SellIsProRata ==
    SellFillReturned =>
        LET t == hist[1].call.token
            d == hist[1].call.delta
            p == MapGet(hist[1].positions, t)
            c == MapGet(hist[1].exposure_costs, t)
        IN  /\ MapGet(exposure_costs, t) = ProRata(c, p, d)
            /\ MapGet(positions, t) = DAdd(p, d)

\* C7 amended: the cost is c * (1 - min(-delta, p) / p) unless that is below
\* one cent or the position is snapped to zero, and then the cost entry is
\* gone; the position is p + delta, snapped to zero below 1e-4.
C7_SellIsProRataOrDropped ==
    SellFillReturned =>
        LET t == hist[1].call.token
            d == hist[1].call.delta
            p == MapGet(hist[1].positions, t)
            c == MapGet(hist[1].exposure_costs, t)
            x == ProRata(c, p, d)
            snapped == DLt(DAbs(DAdd(p, d)), PositionEpsilon)
        IN  /\ Entry(exposure_costs, t) =
                   IF DLt(x, OneCent) \/ snapped THEN <<>> ELSE <<x>>
            /\ MapGet(positions, t) = IF snapped THEN Zero ELSE DAdd(p, d)

\* buy 10 at 0.40, sell 4 at 0.50: cost 2.40, position 6
C7_Witness ==
    /\ SellFillReturned
    /\ hist[1].call = CostCall(1, Dec(1, 2), Dec(-4, 1))
    /\ MapGet(hist[1].exposure_costs, 1) = Dec(4, 1)
    /\ MapGet(exposure_costs, 1) = Dec(12, 5)
    /\ MapGet(positions, 1) = Dec(6, 1)

\* ------------------------------------------------------------------------
\* C8: the two calls of a fill in either order (SpecSeq)
\* ------------------------------------------------------------------------
\* the ledger that the other order of the last fill leaves
OtherOrder == RunCall(RunCall(BeforeFill, hist[2].call), hist[1].call)

\* C8 as claimed: both orders of the two calls leave the same position and
\* the same cost.
C8_EitherOrder ==
    FillReturned =>
        LET t == hist[1].call.token
        IN  /\ MapGet(positions, t) = MapGet(OtherOrder.positions, t)
            /\ MapGet(exposure_costs, t) = MapGet(OtherOrder.exposure_costs, t)

\* C8 amended: both orders leave the same position; they leave the same cost
\* for a buy whose resulting position is not snapped to zero.
C8_EitherOrderForBuys ==
    FillReturned =>
        LET t == hist[1].call.token
            d == hist[1].call.delta
            p == MapGet(hist[1].positions, t)
        IN  /\ Entry(positions, t) = Entry(OtherOrder.positions, t)
            /\ (DLt(Zero, d) /\ ~DLt(DAbs(DAdd(p, d)), PositionEpsilon))
                   => Entry(exposure_costs, t) = Entry(OtherOrder.exposure_costs, t)

\* a buy on top of an existing cost, update_position first
C8_Witness ==
    /\ FillReturned
    /\ hist[1].call.op = OpUpdatePosition
    /\ DLt(Zero, hist[1].call.delta)
    /\ DLt(Zero, MapGet(hist[1].exposure_costs, hist[1].call.token))
    /\ DLt(MapGet(hist[1].exposure_costs, hist[1].call.token),
           MapGet(exposure_costs, hist[1].call.token))

\* ------------------------------------------------------------------------
\* C9, C10: one call of update_exposure_cost (SpecSeq)
\* ------------------------------------------------------------------------
Exposure(m) == SumOver(m, DOMAIN m)

BuyReturned ==
    /\ Len(hist) >= 1
    /\ Returned
    /\ Last.call.op = OpUpdateExposureCost
    /\ DLt(Zero, Last.call.delta)

\* C9 as claimed: a buy leaves the token's cost at c + price * delta.
C9_BuyAddsCost ==
    BuyReturned =>
        LET t == Last.call.token
            c == MapGet(Last.exposure_costs, t)
            x == DAdd(c, DMul(Last.call.price, Last.call.delta))
        IN  /\ MapGet(exposure_costs, t) = x
            /\ Exposure(exposure_costs)
                   = DAdd(Exposure(Last.exposure_costs),
                          DMul(Last.call.price, Last.call.delta))

\* C9 amended: a buy leaves the token's cost at c + price * delta, and the
\* exposure larger by price * delta, unless c + price * delta is below one
\* cent, and then the token's cost entry is gone; no other entry changes.
C9_BuyAddsCostOrDrops ==
    BuyReturned =>
        LET t == Last.call.token
            c == MapGet(Last.exposure_costs, t)
            x == DAdd(c, DMul(Last.call.price, Last.call.delta))
        IN  /\ Entry(exposure_costs, t) = IF DLt(x, OneCent) THEN <<>> ELSE <<x>>
            /\ \A u \in Tokens \ {t} :
                   Entry(exposure_costs, u) = Entry(Last.exposure_costs, u)
            /\ ~DLt(x, OneCent)
                   => Exposure(exposure_costs)
                          = DAdd(Exposure(Last.exposure_costs),
                                 DMul(Last.call.price, Last.call.delta))

\* a buy on top of an existing cost, with another token's cost present
C9_Witness ==
    /\ BuyReturned
    /\ DLt(Zero, MapGet(Last.exposure_costs, Last.call.token))
    /\ DOMAIN exposure_costs = Tokens

\* C10: update_exposure_cost never changes the position store, and with
\* delta = 0 it changes neither store, at any point of the call.
C10_CostCallLeavesPositions ==
    (Len(hist) >= 1 /\ Last.call.op = OpUpdateExposureCost) =>
        /\ positions = Last.positions
        /\ Last.call.delta = Zero => exposure_costs = Last.exposure_costs

\* a sell and a zero-delta call have returned on a ledger that holds the token
C10_Witness ==
    /\ Len(hist) = 2
    /\ Returned
    /\ hist[1].call.op = OpUpdateExposureCost
    /\ DLt(hist[1].call.delta, Zero)
    /\ hist[2].call.op = OpUpdateExposureCost
    /\ hist[2].call.delta = Zero
    /\ hist[2].call.token \in DOMAIN exposure_costs
    /\ hist[2].call.token \in DOMAIN positions

\* ------------------------------------------------------------------------
\* run_merge_task (main.rs 29-107)
\* ------------------------------------------------------------------------
Markets == 1..MaxMarkets

\* a position of the inventory: market, outcome index, size
Position(condition_id, outcome_index, size) ==
    [condition_id |-> condition_id, outcome_index |-> outcome_index, size |-> size]

\* the inventories get_positions can return
Inventories ==
    SUBSET {Position(c, o, sz) : c \in Markets, o \in {0, 1}, sz \in {Zero, Dec(5, 1)}}

\* the orders a HashMap can hand a set of keys out in
Orders(S) ==
    {ids \in [1..Cardinality(S) -> S] : \A i, j \in 1..Cardinality(S) : ids[i] = ids[j] => i = j}

\* faulty variant: a position counts whatever its size
ConditionIdsWithAnySize(held) ==
    LET by_condition(c) == {q.outcome_index : q \in {r \in held : r.condition_id = c}}
    IN  Orders({c \in {q.condition_id : q \in held} :
                   0 \in by_condition(c) /\ 1 \in by_condition(c)})

\* condition_ids_with_both_sides (lines 29-45): the possible results
ConditionIdsWithBothSides(held) ==
    LET counted == {q \in held : ~DLe(q.size, Zero)}
        by_condition(c) == {q.outcome_index : q \in {r \in counted : r.condition_id = c}}
    IN  Orders({c \in {q.condition_id : q \in counted} :
                   0 \in by_condition(c) /\ 1 \in by_condition(c)})

\* what merge_max can return: Ok, or an error whose message holds a
\* rate-limit signal, the no-shares text, both, or neither
MergeResults == {"ok", "rate_limit", "no_shares", "rate_limit_no_shares", "other"}

\* lines 81-83
IsRateLimited(r) == r \in {"rate_limit", "rate_limit_no_shares"}

\* faulty variant: a failure after the retry is reported quietly
ReportLevelQuietRetry(r) ==
    IF r = "ok" THEN "info"
    ELSE IF r \in {"no_shares", "rate_limit_no_shares", "rate_limit"} THEN "debug"
    ELSE "warn"

\* lines 89-102: the level the final result is logged at
ReportLevel(r) ==
    IF r = "ok" THEN "info"
    ELSE IF r \in {"no_shares", "rate_limit_no_shares"} THEN "debug"
    ELSE "warn"

Event(ev, market, detail) == [ev |-> ev, market |-> market, detail |-> detail]

\* the market the for loop is at
CurrentMarket == condition_ids[idx + 1]

\* a merge_max call is issued
StartMerge(next_pc) ==
    /\ mpc' = next_pc
    /\ inflight' = inflight + 1
    /\ mlog' = Append(mlog, Event("merge", CurrentMarket, ""))

\* lines 57-58: get_positions returned Ok
FetchOk(held, ids) ==
    /\ mpc = "fetch"
    /\ ids \in ConditionIdsWithBothSides(held)
    /\ inventory' = held
    /\ condition_ids' = ids
    /\ mpc' = "selected"
    /\ mlog' = Append(mlog, Event("fetched", 0, "ok"))
    /\ UNCHANGED <<idx, merge_result, inflight, ledgervars, tradevars, evalvars, schedvars>>

\* lines 59-63: get_positions failed; the cycle is skipped
FetchErr ==
    /\ mpc = "fetch"
    /\ mpc' = "sleep"
    /\ mlog' = Append(mlog, Event("fetched", 0, "err"))
    /\ UNCHANGED <<inventory, condition_ids, idx, merge_result, inflight, ledgervars,
                   tradevars, evalvars, schedvars>>

\* lines 64-74: the positions are dropped, the number of markets is logged
CountLogged ==
    /\ mpc = "selected"
    /\ mpc' = "item"
    /\ inventory' = {}
    /\ UNCHANGED <<condition_ids, idx, merge_result, inflight, mlog, ledgervars,
                   tradevars, evalvars, schedvars>>

\* faulty variant: the next market is merged without the delay
NextItemNoDelay ==
    /\ mpc = "item"
    /\ idx < Len(condition_ids)
    /\ StartMerge("merge1")
    /\ UNCHANGED <<inventory, condition_ids, idx, merge_result, ledgervars, tradevars,
                   evalvars, schedvars>>

\* lines 76-80: the next market; all but the first wait DELAY_BETWEEN_MERGES
NextItem ==
    /\ mpc = "item"
    /\ idx < Len(condition_ids)
    /\ IF idx > 0
       THEN /\ mpc' = "delay"
            /\ mlog' = Append(mlog, Event("delay", CurrentMarket, ""))
            /\ UNCHANGED inflight
       ELSE StartMerge("merge1")
    /\ UNCHANGED <<inventory, condition_ids, idx, merge_result, ledgervars, tradevars,
                   evalvars, schedvars>>

\* lines 78-80: the delay is over, merge_max is called
DelayOver ==
    /\ mpc = "delay"
    /\ StartMerge("merge1")
    /\ UNCHANGED <<inventory, condition_ids, idx, merge_result, ledgervars, tradevars,
                   evalvars, schedvars>>

\* faulty variant: a failure that is not a rate limit ends the cycle
MergeReturnedAborts(r) ==
    /\ mpc = "merge1"
    /\ inflight' = inflight - 1
    /\ merge_result' = r
    /\ mlog' = Append(mlog, Event("returned", CurrentMarket, r))
    /\ mpc' = IF IsRateLimited(r) THEN "backoff" ELSE IF r = "ok" THEN "report" ELSE "sleep"
    /\ UNCHANGED <<inventory, condition_ids, idx, ledgervars, tradevars, evalvars, schedvars>>

\* faulty variant: the merged shares are taken off the ledger
MergeReturnedUpdatesLedger(r) ==
    /\ mpc = "merge1"
    /\ inflight' = inflight - 1
    /\ merge_result' = r
    /\ mlog' = Append(mlog, Event("returned", CurrentMarket, r))
    /\ mpc' = IF IsRateLimited(r) THEN "backoff" ELSE "report"
    /\ positions' = IF r = "ok" THEN EmptyMap ELSE positions
    /\ UNCHANGED <<inventory, condition_ids, idx, exposure_costs, shard_of, locks, pc,
                   call, loc, ncalls, issued, hist, delta_sum, discarded, tradevars,
                   evalvars, schedvars>>

\* lines 80-85: the first merge_max returned; a rate-limited failure waits
\* RATE_LIMIT_BACKOFF
MergeReturned(r) ==
    /\ mpc = "merge1"
    /\ inflight' = inflight - 1
    /\ merge_result' = r
    /\ mlog' = Append(mlog, Event("returned", CurrentMarket, r))
    /\ mpc' = IF IsRateLimited(r) THEN "backoff" ELSE "report"
    /\ UNCHANGED <<inventory, condition_ids, idx, ledgervars, tradevars, evalvars, schedvars>>

\* lines 85-86: the backoff is over, merge_max is called once more
BackoffOver ==
    /\ mpc = "backoff"
    /\ StartMerge("merge2")
    /\ UNCHANGED <<inventory, condition_ids, idx, merge_result, ledgervars, tradevars,
                   evalvars, schedvars>>

\* faulty variant: a retry that is rate-limited too is retried again
RetryReturnedRetries(r) ==
    /\ mpc = "merge2"
    /\ inflight' = inflight - 1
    /\ merge_result' = r
    /\ mlog' = Append(mlog, Event("returned", CurrentMarket, r))
    /\ mpc' = IF IsRateLimited(r) THEN "backoff" ELSE "report"
    /\ UNCHANGED <<inventory, condition_ids, idx, ledgervars, tradevars, evalvars, schedvars>>

\* lines 86-88: the retry returned
RetryReturned(r) ==
    /\ mpc = "merge2"
    /\ inflight' = inflight - 1
    /\ merge_result' = r
    /\ mlog' = Append(mlog, Event("returned", CurrentMarket, r))
    /\ mpc' = "report"
    /\ UNCHANGED <<inventory, condition_ids, idx, ledgervars, tradevars, evalvars, schedvars>>

\* lines 89-103: the final result is logged, the loop goes to the next market
Report ==
    /\ mpc = "report"
    /\ mlog' = Append(mlog, Event("report", CurrentMarket, ReportLevel(merge_result)))
    /\ idx' = idx + 1
    /\ merge_result' = "none"
    /\ mpc' = "item"
    /\ UNCHANGED <<inventory, condition_ids, inflight, ledgervars, tradevars, evalvars, schedvars>>

\* line 105: every market is handled, the task sleeps for the interval
LoopEnd ==
    /\ mpc = "item"
    /\ idx = Len(condition_ids)
    /\ mpc' = "sleep"
    /\ UNCHANGED <<inventory, condition_ids, idx, merge_result, inflight, mlog,
                   ledgervars, tradevars, evalvars, schedvars>>

\* faulty variant: the task ends after a cycle whose fetch failed
IntervalOverUnlessFailed ==
    /\ mpc = "sleep"
    /\ mpc' = IF \E i \in 1..Len(mlog) : mlog[i] = Event("fetched", 0, "err")
              THEN "stopped" ELSE "fetch"
    /\ condition_ids' = <<>>
    /\ idx' = 0
    /\ mlog' = <<>>
    /\ UNCHANGED <<inventory, merge_result, inflight, ledgervars, tradevars, evalvars, schedvars>>

\* lines 61-62, 105-106 and 56: the interval is over, the next cycle begins
IntervalOver ==
    /\ mpc = "sleep"
    /\ mpc' = "fetch"
    /\ condition_ids' = <<>>
    /\ idx' = 0
    /\ mlog' = <<>>
    /\ UNCHANGED <<inventory, merge_result, inflight, ledgervars, tradevars, evalvars, schedvars>>

NextMerge ==
    \/ /\ mpc = "fetch"
       /\ \E held \in Inventories : \E ids \in ConditionIdsWithBothSides(held) :
              FetchOk(held, ids)
    \/ FetchErr
    \/ CountLogged
    \/ NextItem
    \/ DelayOver
    \/ \E r \in MergeResults : MergeReturned(r)
    \/ BackoffOver
    \/ \E r \in MergeResults : RetryReturned(r)
    \/ Report
    \/ LoopEnd
    \/ IntervalOver

SpecMerge == Init /\ [][NextMerge]_vars

\* the external calls return and the sleeps end
SpecMergeLive == SpecMerge /\ WF_vars(NextMerge)

\* the trading side goes on using the ledger while the merge task runs
MergeTimeCalls ==
    {PositionCall(1, Dec(10, 1)), PositionCall(1, Dec(-10, 1)),
     CostCall(1, Dec(2, 5), Dec(10, 1)), CostCall(1, Dec(2, 5), Dec(-10, 1)),
     ExposureCall}

TradeActivity(c) ==
    /\ ncalls < MaxMergeTimeCalls
    /\ Issue(Caller, c)

NextMergeTrade ==
    \/ NextMerge
    \/ \E c \in MergeTimeCalls : TradeActivity(c)
    \/ LedgerStep(Caller)

SpecMergeTrade == Init /\ [][NextMergeTrade]_vars

\* ------------------------------------------------------------------------
\* The evaluator (SpecEval)
\* ------------------------------------------------------------------------
BestAsk(book) == book[Len(book)]

BothHaveBestAsk == yes_book # <<>> /\ no_book # <<>>

\* x is a whole number of hundredths
IsCents(x) == 100 % x.d = 0

\* x is what rounding raw to 2 decimals gives: a number of cents at most half
\* a cent away
IsRounded(x, raw) == IsCents(x) /\ DLe(DAbs(DSub(x, raw)), Dec(5, 1000))

\* x is raw floored to 2 decimals
IsFloored(x, raw) == IsCents(x) /\ DLe(x, raw) /\ DLt(raw, DAdd(x, Dec(1, 100)))

RoundedTotal == DAdd(RoundDp2(BestAsk(yes_book).price), RoundDp2(BestAsk(no_book).price))

Returned_opp == found[1]

\* C11: check_arbitrage never returns an opportunity whose two prices (the
\* best asks rounded to cents) sum above 1.0, nor one with a leg whose
\* notional price * size is below the minimum order value, and it returns
\* none whenever the sum of the rounded best asks exceeds 1.0.
C11_NoOpportunityAboveOneOrBelowMinimum ==
    evaluated =>
        /\ found # None =>
               /\ DLe(DAdd(Returned_opp.yes_ask_price, Returned_opp.no_ask_price), One)
               /\ DLe(min_order_value_usd,
                      DMul(Returned_opp.yes_ask_price, Returned_opp.yes_size))
               /\ DLe(min_order_value_usd,
                      DMul(Returned_opp.no_ask_price, Returned_opp.no_size))
        /\ (BothHaveBestAsk /\ DLt(One, RoundedTotal)) => found = None

\* an opportunity whose prices sum to exactly 1.0 was returned
C11_Witness ==
    /\ evaluated
    /\ found # None
    /\ DAdd(Returned_opp.yes_ask_price, Returned_opp.no_ask_price) = One

\* the smaller of the two best-ask sizes is exactly zero and the rounded
\* prices sum to at most 1.0
ZeroSizeCase ==
    /\ BothHaveBestAsk
    /\ DLe(RoundedTotal, One)
    /\ IsZero(DMin(BestAsk(yes_book).size, BestAsk(no_book).size))

\* C12 as stated: in the zero-size case check_arbitrage returns an
\* opportunity of the minimal unit size 0.01 on both legs.
C12_ZeroSizeProposesMinimalUnit ==
    (evaluated /\ ZeroSizeCase) =>
        /\ found # None
        /\ Returned_opp.yes_size = Dec(1, 100)
        /\ Returned_opp.no_size = Dec(1, 100)

\* C12: in the zero-size case the size becomes the minimal unit 0.01, each
\* leg's notional is then below the minimum order value, and check_arbitrage
\* returns none.
C12_ZeroSizeIsRejected ==
    (evaluated /\ ZeroSizeCase) =>
        /\ DLt(DMul(RoundDp2(BestAsk(yes_book).price), Dec(1, 100)), min_order_value_usd)
        /\ found = None

C12_Witness == evaluated /\ ZeroSizeCase

\* C13: every returned opportunity carries each side's best ask (the last
\* ask) rounded to 2 decimals, the smaller best-ask size floored to 2
\* decimals on both legs, total_cost = (yes_price + no_price) * size and
\* profit_percentage = (1 - (yes_price + no_price)) * 100; YES 0.46/120 and
\* NO 0.51/90 give size 90.00 and profit 3.0%.
C13_OpportunityFields ==
    /\ (evaluated /\ found # None) =>
           LET total == DAdd(Returned_opp.yes_ask_price, Returned_opp.no_ask_price)
           IN  /\ IsRounded(Returned_opp.yes_ask_price, BestAsk(yes_book).price)
               /\ IsRounded(Returned_opp.no_ask_price, BestAsk(no_book).price)
               /\ Returned_opp.yes_size = Returned_opp.no_size
               /\ IsFloored(Returned_opp.yes_size,
                            DMin(BestAsk(yes_book).size, BestAsk(no_book).size))
               /\ Returned_opp.total_cost = DMul(total, Returned_opp.yes_size)
               /\ Returned_opp.profit_percentage = DMul(DSub(One, total), Dec(100, 1))
    /\ (/\ evaluated
        /\ BothHaveBestAsk
        /\ BestAsk(yes_book) = Level(Dec(46, 100), Dec(120, 1))
        /\ BestAsk(no_book) = Level(Dec(51, 100), Dec(90, 1))) =>
           /\ found # None
           /\ Returned_opp.yes_size = Dec(90, 1)
           /\ Returned_opp.profit_percentage = Dec(3, 1)

\* the books of the example under deeper asks, evaluated
C13_Witness ==
    /\ evaluated
    /\ Len(yes_book) > 1
    /\ Len(no_book) > 1
    /\ BestAsk(yes_book) = Level(Dec(46, 100), Dec(120, 1))
    /\ BestAsk(no_book) = Level(Dec(51, 100), Dec(90, 1))
    /\ found # None

\* ------------------------------------------------------------------------
\* The trading flow (SpecTrade)
\* ------------------------------------------------------------------------
\* C14: no trade is handed to a task for an opportunity whose
\* profit_percentage is below min_profit_threshold.
C14_DispatchedMeetsThreshold ==
    \A t \in Tasks :
        flow[t] = "executing" => DLe(min_profit_threshold, trade[t].profit_percentage)

GateIds == {gatelog[j].id : j \in 1..Len(gatelog)}

\* a step of the book-processing flow
MainFlowStep ==
    \/ pc'[MainFlow] # pc[MainFlow]
    \/ loc'[MainFlow] # loc[MainFlow]
    \/ flow'[MainFlow] # flow[MainFlow]

GateOrdering ==
    /\ \A i \in 1..Len(dispatched) :
           \E j \in 1..Len(gatelog) :
               gatelog[j].id = dispatched[i] /\ ~gatelog[j].over
    /\ \A j \in 1..Len(gatelog) :
           gatelog[j].over => \A i \in 1..Len(dispatched) : dispatched[i] # gatelog[j].id
    /\ Cardinality(GateIds) = Len(gatelog)
    /\ Cardinality({dispatched[i] : i \in 1..Len(dispatched)}) = Len(dispatched)
    /\ Cardinality({t \in Tasks : flow[t] # "free"}) <= Len(dispatched)
    /\ flow[MainFlow] = "wait" => cand = NoOpportunity

\* C15: a candidate is handed to a task only after would_exceed_limit was
\* evaluated for it and returned false; a candidate for which it returned
\* true is never handed over, each candidate is checked and handed over at
\* most once, nothing is kept of a dropped candidate, and no step of the
\* book-processing flow (the check included) changes either ledger store.
C15_GateBeforeExecution ==
    /\ []GateOrdering
    /\ [][MainFlowStep =>
              (positions' = positions /\ exposure_costs' = exposure_costs)]_vars

\* one candidate was rejected and dropped, another was handed to a task
C15_Witness ==
    /\ \E j \in 1..Len(gatelog) : gatelog[j].over
    /\ Len(dispatched) >= 1
    /\ flow[MainFlow] = "wait"

\* C16: would_exceed_limit(a, b) is true exactly when the exposure it read
\* plus a plus b is strictly above max_exposure; with the amounts of the
\* example taken in hundreds (9.50, 0.30 + 0.28, ceiling 10) it is true.
C16_StrictlyAboveCeiling ==
    /\ \A j \in 1..Len(gatelog) :
           gatelog[j].over <=>
               DLt(max_exposure,
                   DAdd(DAdd(gatelog[j].exposure, gatelog[j].yes_cost), gatelog[j].no_cost))
    /\ WouldExceedLimit(Dec(950, 100), Dec(30, 100), Dec(28, 100))

\* a candidate that brings the exposure exactly to the ceiling was admitted,
\* and a later one was rejected
C16_Witness ==
    /\ \E j \in 1..Len(gatelog) :
           /\ ~gatelog[j].over
           /\ DAdd(DAdd(gatelog[j].exposure, gatelog[j].yes_cost), gatelog[j].no_cost)
                  = max_exposure
    /\ \E j \in 1..Len(gatelog) : gatelog[j].over

\* C17 (SpecSeq): calculate_exposure, called with no update in flight,
\* returns the sum of all cost entries stored and leaves both stores as they
\* were.
C17_ExposureIsSumOfCosts ==
    /\ (Len(hist) >= 1 /\ Last.call.op = OpCalculateExposure) =>
           /\ positions = Last.positions
           /\ exposure_costs = Last.exposure_costs
    /\ (Len(hist) >= 1 /\ Last.call.op = OpCalculateExposure /\ Returned) =>
           loc[Caller].result = Exposure(Last.exposure_costs)

\* calculate_exposure has returned on a ledger whose two tokens, in different
\* shards, both carry a cost
C17_Witness ==
    /\ Len(hist) >= 1
    /\ Last.call.op = OpCalculateExposure
    /\ Returned
    /\ DOMAIN exposure_costs = Tokens
    /\ \E a, b \in Tokens : shard_of[a] # shard_of[b]

\* C18 (SpecSeq): calculate_imbalance(a, b) lies in [0, 1] for every pair of
\* tokens, and is 0 when the two positions are equal.
C18_ImbalanceInUnitInterval ==
    \A a, b \in Tokens :
        LET r == CalculateImbalance(positions, a, b)
        IN  /\ DLe(Zero, r)
            /\ DLe(r, One)
            /\ GetPosition(positions, a) = GetPosition(positions, b) => r = Zero

\* the step the book-processing flow is at needs nothing from a trade task
\* but, at most, the shard guard one holds inside a ledger call it can finish
MainFlowCanProceed ==
    \/ pc[MainFlow] = "idle"
    \/ Ready(MainFlow)
    \/ \E q \in Tasks :
           /\ locks[<<CostsStore, loc[MainFlow].shard>>].w = q
           /\ Ready(q)

\* C19: the book-processing flow is only ever waiting for the next book
\* update or working on the current one (reading the exposure, deciding the
\* gate); it is never waiting for a trade, whatever the trade tasks are doing.
C19_FlowNeverWaitsOnExecution ==
    /\ flow[MainFlow] \in {"wait", "log_exposure", "gate"}
    /\ MainFlowCanProceed

\* the flow is working on a further book update while every task has an
\* execution pending
C19_Witness ==
    /\ flow[MainFlow] = "wait"
    /\ nbook = MaxBookUpdates
    /\ \A t \in Tasks : flow[t] = "executing"

\* C20: a task executes, then registers, then classifies: its log is a
\* prefix of execute, register, classify (or the failed execution alone),
\* registration has returned when classification is called, and a task that
\* finished after a result did all three exactly once.
C20_ExecuteRegisterClassify ==
    \A t \in Tasks :
        /\ tasklog[t] \in {<<>>, <<"execute_err">>, <<"execute", "register">>,
                            <<"execute", "register", "classify">>}
        /\ flow[t] = "executing" => tasklog[t] = <<>>
        /\ flow[t] = "registering" => tasklog[t] = <<"execute", "register">>
        /\ flow[t] = "classifying" =>
               /\ tasklog[t] = <<"execute", "register", "classify">>
               /\ prog[t] = <<>>
               /\ pc[t] = "idle"
        /\ flow[t] = "free" =>
               tasklog[t] \in {<<>>, <<"execute_err">>,
                                <<"execute", "register", "classify">>}

\* a task has finished a trade whose fills are in the ledger
C20_Witness ==
    \E t \in Tasks :
        /\ flow[t] = "free"
        /\ tasklog[t] = <<"execute", "register", "classify">>
        /\ DOMAIN exposure_costs = Tokens

\* ------------------------------------------------------------------------
\* The merge task (SpecMerge, SpecMergeLive, SpecMergeTrade)
\* ------------------------------------------------------------------------
\* where in this cycle's log the events of one kind for one market are
EventsOf(ev, m) == {i \in 1..Len(mlog) : mlog[i].ev = ev /\ mlog[i].market = m}

FirstOf(S) == CHOOSE i \in S : \A j \in S : i <= j

\* the markets the for loop is through with
Handled == {condition_ids[k] : k \in 1..idx}

FetchFailed == \E i \in 1..Len(mlog) : mlog[i] = Event("fetched", 0, "err")

FetchSucceeded == \E i \in 1..Len(mlog) : mlog[i] = Event("fetched", 0, "ok")

\* C23: in one cycle merge_max is called at most twice for a market; a
\* second call follows a first one that failed with a rate-limit signal and
\* nothing else; a market that is through was called twice exactly when its
\* first call was rate-limited, so a failed retry is not retried.
C23_RetryBound ==
    \A m \in Markets :
        LET calls == EventsOf("merge", m)
            returns == EventsOf("returned", m)
        IN  /\ Cardinality(calls) <= 2
            /\ Cardinality(calls) = 2 =>
                   /\ returns # {}
                   /\ IsRateLimited(mlog[FirstOf(returns)].detail)
                   /\ \E i \in calls : FirstOf(returns) < i
            /\ m \in Handled =>
                   /\ returns # {}
                   /\ Cardinality(calls) = 2 <=>
                          mlog[FirstOf(returns)].detail \in {"rate_limit",
                                                             "rate_limit_no_shares"}
                   /\ Cardinality(returns) = Cardinality(calls)

\* a cycle is over in which a market's retry was rate-limited as well
C23_Witness ==
    /\ mpc = "sleep"
    /\ \E m \in Markets :
           /\ Cardinality(EventsOf("merge", m)) = 2
           /\ \A i \in EventsOf("returned", m) : mlog[i].detail = "rate_limit"
           /\ Cardinality(EventsOf("returned", m)) = 2

\* C24: at most one merge_max call is in flight; the events of one market
\* are not interleaved with another's; the first call of every market but
\* the cycle's first comes right after the delay, which comes right after
\* the report of the market before; nothing is delayed before the first.
C24_SerialWithDelay ==
    /\ inflight \in {0, 1}
    /\ \A i, j, k \in 1..Len(mlog) :
           (i < j /\ j < k /\ mlog[i].market = mlog[k].market /\ mlog[i].market # 0)
               => mlog[j].market = mlog[i].market
    /\ \A m \in Markets :
           EventsOf("merge", m) # {} =>
               LET i == FirstOf(EventsOf("merge", m))
               IN  IF \E j \in 1..(i - 1) : mlog[j].ev = "merge"
                   THEN /\ mlog[i - 1] = Event("delay", m, "")
                        /\ mlog[i - 2].ev = "report"
                        /\ mlog[i - 2].market # m
                   ELSE \A j \in 1..(i - 1) : mlog[j].ev # "delay"
    /\ \A i \in 1..(Len(mlog) - 1) : mlog[i].ev = "delay" => mlog[i + 1].ev = "merge"

\* the second market's call is in flight, after the first one's report
C24_Witness ==
    /\ inflight = 1
    /\ idx = 1
    /\ mpc = "merge1"
    /\ EventsOf("report", condition_ids[1]) # {}

\* the markets with a position of size > 0 on each outcome index
HeldOnBothSides ==
    {c \in Markets :
        /\ \E q \in inventory :
               q.condition_id = c /\ q.outcome_index = 0 /\ DLt(Zero, q.size)
        /\ \E q \in inventory :
               q.condition_id = c /\ q.outcome_index = 1 /\ DLt(Zero, q.size)}

\* C25: whatever the inventory, the markets selected are exactly those with
\* a position of size > 0 on outcome index 0 and one on outcome index 1,
\* each of them once.
C25_SelectsBothSides ==
    mpc = "selected" =>
        /\ {condition_ids[k] : k \in 1..Len(condition_ids)} = HeldOnBothSides
        /\ Len(condition_ids) = Cardinality(HeldOnBothSides)

\* one market is selected; the other has a positive size on one side and a
\* zero size on the other, and is not
C25_Witness ==
    /\ mpc = "selected"
    /\ Len(condition_ids) = 1
    /\ \E c \in Markets :
           /\ c # condition_ids[1]
           /\ Position(c, 0, Dec(5, 1)) \in inventory
           /\ Position(c, 1, Zero) \in inventory

\* every selected market has a merge_max call in the log
AllAttempted ==
    \A k \in 1..Len(condition_ids) : EventsOf("merge", condition_ids[k]) # {}

\* C26: when the task sleeps after a cycle whose fetch succeeded, every
\* selected market has had a merge attempt, however the earlier ones ended;
\* the loop, through with the last market, sleeps; a cycle only begins out
\* of the sleep.
C26_NoAbort ==
    /\ []((mpc = "sleep" /\ FetchSucceeded) => AllAttempted)
    /\ [][(mpc = "item" /\ idx = Len(condition_ids)) => mpc' = "sleep"]_vars
    /\ [][mpc' = "sleep" => (mpc \in {"fetch", "item"}
                              /\ (mpc = "item" => idx = Len(condition_ids)))]_vars
    /\ [][mpc' = "fetch" => mpc = "sleep"]_vars

\* the cycle is over; the first market ended in a warning, the second one
\* was attempted all the same
C26_Witness ==
    /\ mpc = "sleep"
    /\ Len(condition_ids) = 2
    /\ \E i \in EventsOf("report", condition_ids[1]) : mlog[i].detail = "warn"
    /\ EventsOf("merge", condition_ids[2]) # {}

\* C27 (SpecMergeLive): a cycle whose fetch failed calls merge_max for no
\* market and goes to sleep; and, the calls returning and the sleeps ending,
\* the inventory is fetched again and again, whatever failed.
C27_RunsForever ==
    /\ [](FetchFailed => (mpc = "sleep" /\ \A i \in 1..Len(mlog) : mlog[i].ev # "merge"))
    /\ []<>(mpc = "fetch")
    /\ ((mpc = "sleep") ~> (mpc = "fetch"))

\* the task sleeps after a fetch that failed
C27_Witness ==
    /\ mpc = "sleep"
    /\ FetchFailed
    /\ Len(mlog) = 1

\* the level a final result is to be reported at
LevelOfClass(r) ==
    CASE r = "ok" -> "info"
      [] r \in {"no_shares", "rate_limit_no_shares"} -> "debug"
      [] OTHER -> "warn"

\* C28: a market's final result is reported once, right after the last
\* merge_max call for it returned: success at info, the no-shares failure
\* at debug, any other failure at warn, a rate limit that outlasted the
\* retry included.
C28_ReportedOnceByClass ==
    \A m \in Markets :
        LET reports == EventsOf("report", m)
        IN  /\ Cardinality(reports) <= 1
            /\ m \in Handled <=> reports # {}
            /\ \A i \in reports :
                   /\ mlog[i - 1].ev = "returned"
                   /\ mlog[i - 1].market = m
                   /\ \A j \in EventsOf("returned", m) : j <= i - 1
                   /\ mlog[i].detail = LevelOfClass(mlog[i - 1].detail)

\* a rate limit outlasted the retry and was reported as a warning
C28_Witness ==
    \E m \in Markets : \E i \in EventsOf("report", m) :
        /\ mlog[i].detail = "warn"
        /\ mlog[i - 1].detail = "rate_limit"
        /\ Cardinality(EventsOf("merge", m)) = 2

\* C29 (SpecMergeTrade): no step of the merge task changes the positions,
\* the exposure costs, a shard guard or a ledger call under way, so a ledger
\* call that could go on before the step can go on after it.
C29_MergeLeavesLedgerAlone ==
    [][mergevars' # mergevars =>
           /\ UNCHANGED <<positions, exposure_costs, locks, pc, call, loc>>
           /\ \A p \in Procs : Ready(p) => Ready(p)']_vars

\* a merge_max call is in flight while a ledger call holds a shard guard
\* over a ledger that is not empty
C29_Witness ==
    /\ inflight = 1
    /\ \E l \in LockIds : locks[l].w = Caller
    /\ positions # EmptyMap

\* ------------------------------------------------------------------------
\* Settlement and dispatch (SpecTrade)
\* ------------------------------------------------------------------------
\* task t goes from registering to classifying with an action
Classified(t) ==
    /\ flow[t] = "registering"
    /\ flow'[t] = "classifying"
    /\ action'[t] # HandleFailed

\* C21: the classification of a registered pair is one of the four
\* actions, fixed by the two filled quantities: None exactly for equal
\* non-zero fills; MonitorForExit, with the filled leg and its quantity,
\* exactly when one leg filled and the other did not at all; SellExcess,
\* with the larger leg and the difference, exactly when both filled
\* differently; ManualIntervention otherwise, so when neither leg filled.
\* 50 against 0 gives MonitorForExit of 50, 50 against 45 SellExcess of 5.
C21_ClassifiedByFills ==
    /\ [][\A t \in Tasks :
              Classified(t) =>
                  LET y == pair_result[t].yes_filled
                      n == pair_result[t].no_filled
                      a == action'[t]
                  IN  /\ a.kind \in {"None", "MonitorForExit", "SellExcess",
                                      "ManualIntervention"}
                      /\ a.kind = "None" <=> (y = n /\ DLt(Zero, y))
                      /\ a.kind = "MonitorForExit" <=>
                             \/ DLt(Zero, y) /\ n = Zero
                             \/ DLt(Zero, n) /\ y = Zero
                      /\ a.kind = "MonitorForExit" =>
                             a = IF DLt(Zero, y)
                                 THEN MonitorForExit(trade[t].yes_token_id, y)
                                 ELSE MonitorForExit(trade[t].no_token_id, n)
                      /\ a.kind = "SellExcess" <=>
                             (DLt(Zero, y) /\ DLt(Zero, n) /\ y # n)
                      /\ a.kind = "SellExcess" =>
                             a = IF DLt(n, y)
                                 THEN SellExcess(trade[t].yes_token_id, DSub(y, n))
                                 ELSE SellExcess(trade[t].no_token_id, DSub(n, y))
                      /\ a.kind = "ManualIntervention" <=> (y = Zero /\ n = Zero)]_vars
    /\ [](/\ Classify(Dec(50, 1), Zero, 1, 2) = MonitorForExit(1, Dec(50, 1))
          /\ Classify(Dec(50, 1), Dec(45, 1), 1, 2) = SellExcess(1, Dec(5, 1)))

\* one pair was classified SellExcess, the other, with neither leg filled,
\* ManualIntervention
C21_Witness ==
    \E t, u \in Tasks :
        /\ flow[t] = "classifying"
        /\ action[t].kind = "SellExcess"
        /\ DLt(Zero, action[t].quantity)
        /\ flow[u] = "classifying"
        /\ action[u] = ManualIntervention

\* the step leaves the ledger and the calls under way as they are
LedgerUntouched == UNCHANGED <<positions, exposure_costs, locks, pc, call, loc, prog>>

\* the step neither spawns a task nor reaches the book-processing flow
BookFlowUntouched(t) ==
    /\ \A p \in Procs \ {t} : flow'[p] = flow[p]
    /\ UNCHANGED <<cand, nbook, gatelog, dispatched, update>>

\* C22: a failed execution ends the task with an error line and nothing
\* else: no ledger call was or is made for it and none is pending; and the
\* handler of a classified pair only logs, a warning exactly for
\* ManualIntervention, info for MonitorForExit and SellExcess, nothing for
\* None; neither changes the ledger, spawns a task or touches the state
\* of the book-processing flow.
C22_OutcomesOnlyLogged ==
    [][\A t \in Tasks :
           /\ (flow[t] = "executing" /\ flow'[t] = "free") =>
                  /\ LedgerUntouched
                  /\ BookFlowUntouched(t)
                  /\ prog[t] = <<>>
                  /\ tasklog'[t] = <<"execute_err">>
                  /\ logged'[t] = "error"
           /\ (flow[t] = "classifying" /\ flow'[t] = "free") =>
                  /\ LedgerUntouched
                  /\ BookFlowUntouched(t)
                  /\ logged'[t] = "warn" <=> action[t].kind = "ManualIntervention"
                  /\ action[t].kind \in {"MonitorForExit", "SellExcess"} =>
                         logged'[t] = "info"
                  /\ action[t].kind = "None" => logged'[t] = "none"]_vars

\* one task ended on a failed execution, the other on a manual
\* intervention, and the book-processing flow has taken every update
C22_Witness ==
    \E t, u \in Tasks :
        /\ flow[t] = "free" /\ logged[t] = "error"
        /\ flow[u] = "free" /\ logged[u] = "warn"
        /\ nbook = MaxBookUpdates
        /\ flow[MainFlow] = "wait"

\* the best YES ask of an update as the book gives it
RawYesAsk(u) == u.pair.yes_book[Len(u.pair.yes_book)].price

\* the guards before the exposure check, on the update itself; the YES
\* price is taken as yes_price says
GuardsHeld(u, yes_price) ==
    /\ TotalAskPrice(u.pair) # None
    /\ DLe(TotalAskPrice(u.pair)[1], DSub(One, arbitrage_execution_spread))
    /\ CheckArbitrage(u.pair.yes_book, u.pair.no_book) # None
    /\ DLt(Zero, config.min_yes_price_threshold) =>
           DLe(config.min_yes_price_threshold, yes_price)
    /\ (config.stop_arbitrage_before_end_minutes > 0 /\ u.market_known) =>
           u.minutes_until_end > config.stop_arbitrage_before_end_minutes

\* the book-processing flow is about to spawn a task for the update
AboutToSpawn ==
    /\ flow[MainFlow] = "gate"
    /\ pc[MainFlow] = "idle"
    /\ ~WouldExceedLimit(loc[MainFlow].result, YesCost(cand), NoCost(cand))

\* C30 as stated: a task is spawned only for an update whose YES ask is not
\* below the threshold.
C30_SpawnedOnlyAboveRawYesAsk ==
    AboutToSpawn => GuardsHeld(update, RawYesAsk(update))

\* C30: an update gets past the guards, and a task is spawned for it, only
\* if its unrounded best-ask sum is at most 1 - arbitrage_execution_spread,
\* check_arbitrage returned an opportunity, the YES ask rounded to cents is
\* not below min_yes_price_threshold (when that is > 0) and the market is
\* more than stop_arbitrage_before_end_minutes from its end (when that is
\* > 0 and the market is known); it is spawned only when would_exceed_limit
\* returned false; an update that fails a guard changes nothing, and one
\* that would_exceed_limit rejects leaves the ledger and the tasks alone.
C30_DispatchGuards ==
    /\ [](flow[MainFlow] # "wait" => GuardsHeld(update, RoundDp2(RawYesAsk(update))))
    /\ [][dispatched' # dispatched => AboutToSpawn]_vars
    /\ [][(nbook' # nbook /\ ~GuardsHeld(update', RoundDp2(RawYesAsk(update')))) =>
              UNCHANGED <<positions, exposure_costs, shard_of, locks, pc, call, loc,
                          ncalls, flow, cand, trade, prog, gatelog, dispatched,
                          tasklog, config, pair_result, action, logged>>]_vars
    /\ [][(flow[MainFlow] = "gate" /\ flow'[MainFlow] = "wait"
             /\ dispatched' = dispatched) =>
              /\ WouldExceedLimit(loc[MainFlow].result, YesCost(cand), NoCost(cand))
              /\ UNCHANGED <<positions, exposure_costs, locks, pc, call, loc, trade,
                             prog, tasklog, nbook>>
              /\ \A t \in Tasks : flow'[t] = flow[t]]_vars

\* with the guards on, a task is about to be spawned for an update whose
\* YES ask of 0.495 passes the threshold of 0.50 as 0.50
C30_Witness ==
    /\ AboutToSpawn
    /\ config = GuardsOn
    /\ RawYesAsk(update) = Dec(495, 1000)
    /\ update.market_known

\* ------------------------------------------------------------------------
\* The cost the gate checks and the cost handed over (SpecEval)
\* ------------------------------------------------------------------------
\* what the stream loop makes of the books under evaluation (lines 381-387)
CandidateOfBooks == Candidate([yes_book |-> yes_book, no_book |-> no_book])

\* C31: the cost would_exceed_limit is called with, yes_cost + no_cost over
\* order_size = min(yes_size, no_size, max_order_size), is not below the
\* total_cost of the opportunity that is cloned for execute_arbitrage_pair.
C31_CheckedCostCoversHandedCost ==
    (evaluated /\ CandidateOfBooks # None) =>
        DLe(CandidateOfBooks[1].total_cost,
            DAdd(YesCost(CandidateOfBooks[1]), NoCost(CandidateOfBooks[1])))


SecondOffsets == {0, 1, 59, 60, 1800, 3595, 3599}

\* the instants tried: each offset in each ET hour from an ET midnight on
Instants ==
    {EtOffsetSecs + h * 3600 + o : h \in 0..MaxHours, o \in SecondOffsets}

\* values of config.market_refresh_advance_secs (main.rs 122)
RefreshAdvances == {0, 5, 4000}

WindowResult(current, next, wait) == [current |-> current, next |-> next, wait |-> wait]

InitWindow ==
    /\ LedgerInit
    /\ NoBooks
    /\ MergeInit
    /\ config = GuardsOn
    /\ now \in Instants
    /\ refresh_advance_secs \in RefreshAdvances
    /\ win = None
    /\ spc = "off"
    /\ fetched = None
    /\ branch = "none"
    /\ retrying = FALSE
    /\ slept = 0
    /\ mon = "off"
    /\ window_ts = 0
    /\ timer = 0
    /\ book_in = 0

\* the three functions are called with now
ApplyWindow ==
    /\ win = None
    /\ win' = Some(WindowResult(calculate_current_window_timestamp(now),
                                calculate_next_window_timestamp(now),
                                calculate_wait_time(now, refresh_advance_secs)))
    /\ UNCHANGED <<ledgervars, tradevars, evalvars, mergevars, now,
                   refresh_advance_secs, spc, fetched, branch, retrying, slept, mon,
                   window_ts, timer, book_in>>

NextWindow == ApplyWindow

SpecWindow == InitWindow /\ [][NextWindow]_vars

\* an instant at which an ET hour begins
IsHourBoundary(t) == (t - EtOffsetSecs) % 3600 = 0

\* C36: for every whole-second instant the current window timestamp is the
\* greatest hour boundary not after now and the next window timestamp the least
\* hour boundary not before now, also across ET midnight; so next - current is
\* 0 or 3600, the two are equal exactly when now is on the hour, and the wait
\* time is max(0, next - now - refresh_advance_secs), never negative.
C36_WindowArithmetic ==
    win # None =>
        LET w == win[1]
            rest == w.next - now - refresh_advance_secs
        IN  /\ IsHourBoundary(w.current)
            /\ w.current <= now
            /\ now < w.current + 3600
            /\ IsHourBoundary(w.next)
            /\ now <= w.next
            /\ w.next < now + 3600
            /\ w.next - w.current \in {0, 3600}
            /\ (w.next = w.current) <=> IsHourBoundary(now)
            /\ w.wait = (IF rest > 0 THEN rest ELSE 0)
            /\ w.wait >= 0

\* the functions were applied in the last ET hour of a day, off the hour
C36_Witness ==
    /\ win # None
    /\ EtHour(now) = 23
    /\ ~IsHourBoundary(now)
    /\ EtDay(win[1].next) = EtDay(now) + 1


\* ------------------------------------------------------------------------
\* SpecSched: main fetches the markets of a window
\* (market/scheduler.rs 39-99, market/discoverer.rs 146-161, main.rs 259-271)
\* ------------------------------------------------------------------------
\* a market as the Gamma API lists it; tradable: active, with an order book,
\* accepting orders and complete (what parse_market asks for)
GammaMarket(slug, tradable) == [slug |-> slug, tradable |-> tradable]

\* gamma_client.markets(&request).await
GammaOk(markets) == [ok |-> TRUE, markets |-> markets]
GammaErr == [ok |-> FALSE, markets |-> <<>>]

GammaReplies ==
    {GammaOk(<<>>),
     GammaOk(<<GammaMarket("btc", FALSE)>>),
     GammaOk(<<GammaMarket("btc", TRUE)>>),
     GammaOk(<<GammaMarket("btc", TRUE), GammaMarket("eth", FALSE)>>),
     GammaErr}

\* Result<Vec<MarketInfo>>
Ok(markets) == [ok |-> TRUE, markets |-> markets]
Err == [ok |-> FALSE, markets |-> <<>>]

\* discoverer.rs 165-215: Some(MarketInfo) for a tradable market
parse_market(market) == IF market.tradable THEN Some(market.slug) ELSE None

RECURSIVE FilterMapParse(_)
\* markets.into_iter().filter_map(|market| self.parse_market(market)).collect()
FilterMapParse(markets) ==
    IF markets = <<>> THEN <<>>
    ELSE parse_market(Head(markets)) \o FilterMapParse(Tail(markets))

\* discoverer.rs 146-161: the parsed markets of the reply; a failed request is
\* logged and answered with Ok of an empty list
get_markets_for_timestamp(reply) ==
    IF reply.ok THEN Ok(FilterMapParse(reply.markets)) ELSE Ok(<<>>)

\* faulty variant: every Ok result is returned, empty or not (the is_empty
\* tests of lines 53 and 85 missing)
ReturnsMarketsAnyOk(res) == res.ok

\* scheduler.rs 52-55 and 84-87: the arm that returns Ok(markets)
ReturnsMarkets(res) == res.ok /\ res.markets # <<>>

\* the hour boundary the runs start around: 23:00 ET
FirstBoundary == EtOffsetSecs + 23 * 3600

\* instants main enters its loop at
StartInstants ==
    {FirstBoundary, FirstBoundary + 1, FirstBoundary + 1800, FirstBoundary + 3597}

\* the scheduler is followed until this instant
Horizon == FirstBoundary + MaxWindows * 3600

InitSched ==
    /\ LedgerInit
    /\ NoBooks
    /\ MergeInit
    /\ config = GuardsOn
    /\ now \in StartInstants
    /\ refresh_advance_secs \in {0, 5}
    /\ win = None
    /\ spc = "call"
    /\ fetched = None
    /\ branch = "none"
    /\ retrying = FALSE
    /\ slept = 0
    /\ mon = "off"
    /\ window_ts = 0
    /\ timer = 0
    /\ book_in = 0

\* scheduler.rs 39-66: get_markets_immediately_or_wait up to its return or its
\* call of wait_for_next_window; on the hour the current window is not queried
GetMarketsImmediately(reply) ==
    /\ spc = "call"
    /\ LET current_timestamp == calculate_current_window_timestamp(now)
           next_timestamp == calculate_next_window_timestamp(now)
           res == get_markets_for_timestamp(reply)
       IN  IF current_timestamp # next_timestamp /\ ReturnsMarkets(res)
           THEN /\ fetched' = Some(res)
                /\ spc' = "returned"
           ELSE /\ fetched' = None
                /\ spc' = "wait"
    /\ retrying' = FALSE
    /\ slept' = 0
    /\ branch' = "none"
    /\ UNCHANGED <<ledgervars, tradevars, evalvars, mergevars, now,
                   refresh_advance_secs, win, mon, window_ts, timer, book_in>>

\* scheduler.rs 71-78: the top of the loop of wait_for_next_window, run in
\* every iteration: the wait time is computed and, if positive, slept
WaitForWindow ==
    /\ spc = "wait"
    /\ now < Horizon
    /\ LET wait_time == calculate_wait_time(now, refresh_advance_secs)
       IN  /\ slept' = wait_time
           /\ now' = now + wait_time
    /\ spc' = "query"
    /\ UNCHANGED <<ledgervars, tradevars, evalvars, mergevars, refresh_advance_secs,
                   win, fetched, branch, retrying, mon, window_ts, timer, book_in>>

\* scheduler.rs 81-97: the window of now is queried; markets are returned, an
\* empty or failed query is followed by sleep(2 s) and the next iteration
QueryWindow(reply) ==
    /\ spc = "query"
    /\ LET res == get_markets_for_timestamp(reply)
       IN  IF ReturnsMarkets(res)
           THEN /\ fetched' = Some(res)
                /\ spc' = "returned"
                /\ UNCHANGED <<now, retrying>>
           ELSE /\ now' = now + 2
                /\ retrying' = TRUE
                /\ spc' = "wait"
                /\ UNCHANGED fetched
    /\ UNCHANGED <<ledgervars, tradevars, evalvars, mergevars, refresh_advance_secs,
                   win, branch, slept, mon, window_ts, timer, book_in>>

\* main.rs 259-271: Err is logged and the loop continues after 60 s, an empty
\* list is skipped, anything else is monitored
MainMatch ==
    /\ spc = "returned"
    /\ LET res == fetched[1]
       IN  IF ~res.ok
           THEN /\ branch' = "fetch_error"
                /\ now' = now + 60
                /\ spc' = "call"
           ELSE IF res.markets = <<>>
           THEN /\ branch' = "no_markets"
                /\ spc' = "call"
                /\ UNCHANGED now
           ELSE /\ branch' = "monitor"
                /\ spc' = "monitoring"
                /\ UNCHANGED now
    /\ UNCHANGED <<ledgervars, tradevars, evalvars, mergevars, refresh_advance_secs,
                   win, fetched, retrying, slept, mon, window_ts, timer, book_in>>

NextSched ==
    \/ \E reply \in GammaReplies : GetMarketsImmediately(reply)
    \/ WaitForWindow
    \/ \E reply \in GammaReplies : QueryWindow(reply)
    \/ MainMatch

SpecSched == InitSched /\ [][NextSched]_vars

\* C34: in wait_for_next_window the query that follows an empty or failed
\* query is issued after the 2-second retry delay alone: the iteration that
\* follows such a query does not sleep towards a further window boundary.
C34_RetryWaitsTwoSecondsOnly ==
    (spc = "query" /\ retrying) => slept = 0

\* C35: get_markets_immediately_or_wait returns neither an error nor an empty
\* list, only the markets some query found, so main takes neither its
\* fetch-error branch nor its no-markets branch.
C35_ReturnsMarketsOnly ==
    /\ fetched # None => (fetched[1].ok /\ fetched[1].markets # <<>>)
    /\ branch \notin {"fetch_error", "no_markets"}

\* main monitors markets that were found after empty or failed queries
C35_Witness ==
    /\ branch = "monitor"
    /\ retrying
    /\ fetched # None


\* ------------------------------------------------------------------------
\* SpecMonitor: the monitoring loop of one window (main.rs 294-554)
\* ------------------------------------------------------------------------
\* line 536: sleep(Duration::from_secs(5)), created by each select!
CheckIntervalSecs == 5

\* seconds the stream lets pass between two books
BookGaps == {1, 4, 7}

\* the boundary at which the monitored window ends
WindowEnd == FirstBoundary + 3600

\* the clock is followed up to this instant; the window timestamp of every
\* later instant differs from the recorded one just as it does here
NowCap == WindowEnd + MaxPast

InitMonitor ==
    /\ LedgerInit
    /\ NoBooks
    /\ MergeInit
    /\ config = GuardsOn
    /\ now \in {WindowEnd - lead : lead \in 1..MaxLead}
    /\ refresh_advance_secs = 0
    /\ win = None
    /\ spc = "monitoring"
    /\ fetched = None
    /\ branch = "monitor"
    /\ retrying = FALSE
    /\ slept = 0
    /\ mon = "select"
    /\ window_ts = calculate_current_window_timestamp(now)
    /\ timer = CheckIntervalSecs
    /\ book_in \in BookGaps

\* a second passes while both branches of the select! are pending
Tick ==
    /\ mon = "select"
    /\ timer > 0
    /\ book_in > 0
    /\ now' = IF now < NowCap THEN now + 1 ELSE now
    /\ timer' = timer - 1
    /\ book_in' = book_in - 1
    /\ UNCHANGED <<ledgervars, tradevars, evalvars, mergevars, refresh_advance_secs,
                   win, spc, fetched, branch, retrying, slept, mon, window_ts>>

\* lines 307-522: stream.next() yields Some(Ok(book)); the book is processed,
\* the sleep of this select! is dropped and the loop starts the next select!
\* with a new sleep(5 s)
BookArrives(gap) ==
    /\ mon = "select"
    /\ book_in = 0
    /\ timer' = CheckIntervalSecs
    /\ book_in' = gap
    /\ UNCHANGED <<ledgervars, tradevars, evalvars, mergevars, now,
                   refresh_advance_secs, win, spc, fetched, branch, retrying, slept,
                   mon, window_ts>>

\* lines 523-531: stream.next() yields Some(Err) or None: break
StreamOver ==
    /\ mon = "select"
    /\ book_in = 0
    /\ mon' = "stream_over"
    /\ UNCHANGED <<ledgervars, tradevars, evalvars, mergevars, now,
                   refresh_advance_secs, win, spc, fetched, branch, retrying, slept,
                   window_ts, timer, book_in>>

\* lines 535-552: the sleep completes; in a new window the stream is dropped,
\* the subscriptions are cleared and the loop is left, else the next select!
\* starts
TimerFires ==
    /\ mon = "select"
    /\ timer = 0
    /\ LET new_window_timestamp == calculate_current_window_timestamp(now)
       IN  IF new_window_timestamp # window_ts
           THEN /\ mon' = "switched"
                /\ UNCHANGED timer
           ELSE /\ timer' = CheckIntervalSecs
                /\ UNCHANGED mon
    /\ UNCHANGED <<ledgervars, tradevars, evalvars, mergevars, now,
                   refresh_advance_secs, win, spc, fetched, branch, retrying, slept,
                   window_ts, book_in>>

NextMonitor ==
    \/ Tick
    \/ \E gap \in BookGaps : BookArrives(gap)
    \/ StreamOver
    \/ TimerFires

SpecMonitor == InitMonitor /\ [][NextMonitor]_vars

\* time passes, a ready stream is polled, and a select! with both branches
\* ready picks either of them (tokio picks at random)
SpecMonitorLive ==
    /\ SpecMonitor
    /\ WF_vars(Tick)
    /\ WF_vars(\E gap \in BookGaps : BookArrives(gap))
    /\ SF_vars(TimerFires)

\* the hour window of now is no longer the one being monitored
WindowChanged == calculate_current_window_timestamp(now) # window_ts

\* C33: the new-window check runs every 5 seconds whatever the book traffic:
\* once the window timestamp has changed, the monitoring loop is eventually
\* left, even when books keep arriving less than 5 seconds apart.
C33_WindowChangeLeavesLoop ==
    (mon = "select" /\ WindowChanged) ~> (mon # "select")

====
